---- MODULE Spec2Model ----
(***************************************************************************)
(* The stream process supervisor of CreAIta (app/stream_manager.py).       *)
(*                                                                         *)
(* One ManagedStream is modelled together with every thread that touches   *)
(* it: the asynchronous initialisation task, the monitor / health-check /  *)
(* token-refresh / recovery-confirmation threads that start() and          *)
(* _try_restart() spawn, and the request thread that stops or removes the  *)
(* stream.  The threads interleave between the steps named below; each     *)
(* step is the run of statements given in its comment.  The steps are cut  *)
(* where a thread tests the generation or the stop flag and then acts on   *)
(* what it found, so that another thread can run between test and act.     *)
(*                                                                         *)
(* Time is not modelled: a "for _ in range(N): sleep(1); check" loop of    *)
(* the health check, the refresh and the confirmation may end after any    *)
(* number of ticks.  A task of these three that sleeps in such a loop and  *)
(* finds its generation stale returns at its next tick without touching    *)
(* anything; as the generation never comes back to an earlier value, the   *)
(* model retires such a task at the step that bumps the generation (see    *)
(* Retire), and a task that has returned is like one never spawned         *)
(* ("none").  The locals of a thread are reset when it ends.  The back-off *)
(* wait of _try_restart is counted tick by tick.  The stderr log handle    *)
(* and _start_time are not modelled.  The return code of a transcoder is   *)
(* chosen when wait() returns it.  MaxSuspended bounds how many of the     *)
(* background tasks are held between their test and their act at once.     *)
(*                                                                         *)
(* Every start() call that gets past the "already running" test takes a    *)
(* fresh slot k: the processes it launches and the threads it spawns are   *)
(* pstate[k], fstate[k], pc[k], hpc[k], tpc[k]; sgen[k] is its "gen".      *)
(*                                                                         *)
(* The second part models StreamManager: the registry of several users'    *)
(* streams, the streams table and the event loop (SpecRegistry).           *)
(*                                                                         *)
(* The last parts model the handler registry of app/stream_handlers.py     *)
(* (SpecHandlers) and the tables of app/database.py with the session       *)
(* cookie of app/main.py (SpecDatabase, SpecSessions, SpecCleanup).        *)
(* SpecScheduled is the supervisor under a fair thread scheduler,          *)
(* SpecRetry the supervisor with a caller that starts a failed stream      *)
(* again, SpecPiped the supervisor with feeders that end by themselves.    *)
(***************************************************************************)
EXTENDS Integers, FiniteSets, Sequences, TLC

\* Bound: the number of start() calls that launch (slots).
MaxStarts == 3

\* Bound: the number of stop() calls on the supervisor.
MaxStops == 2

\* Bound: the number of health-check, refresh and confirmation tasks that
\* are between their test of the generation and their act at the same time.
MaxSuspended == 1

\* Bound: the number of streams added to the registry.
MaxStreams == 2

\* Bound: the number of users (sessions).
MaxUsers == 2
\* add_handler calls made on one StreamHandlerRegistry.
MaxAdds == 2
\* The priority argument of add_handler ranges over -MaxPriority..MaxPriority.
MaxPriority == 5
\* save_stream calls made on one database.
MaxSaves == 3
\* time.time() ranges over 0..MaxClock.
MaxClock == 2
\* Session ids are 1..MaxSessions; the users table holds at most MaxAccounts rows.
MaxSessions == 3
MaxAccounts == 3

K == 1..MaxStarts
\* Thread ids of the callers of start(): monitor k (through _try_restart),
\* the initialisation task and a client calling start() itself.
InitT == MaxStarts + 1
ClientT == MaxStarts + 2
Starters == K \cup {InitT, ClientT}

\* The source URLs: one per handler behaviour.
\*   generic : GenericHandler, direct mode, not a platform source
\*   twitch  : TwitchHandler (and YouTube live), feeder piped into FFmpeg
\*   amss    : AmssKamereHandler, platform source without feeder command
\*   ytvod   : YouTubeHandler with is_vod metadata
Urls == {"generic", "twitch", "amss", "ytvod"}

\* handler.__class__.__name__ in (Twitch, YouTube, AmssKamere)
HandlerIsPlatform(u) == u \in {"twitch", "amss", "ytvod"}
\* metadata.is_vod
MetadataIsVod(u) == u = "ytvod"
\* handler.get_feeder_command(url) is non-empty
FeederCommand(u) == u \in {"twitch", "ytvod"}

\* What wait() returns: 0, or a non-zero code (an error, a signal).
ExitCodes == {0, 1}

BACKOFF_BASE == 3
BACKOFF_CAP == 30

VARIABLES
    url,             \* info.source_url (its handler class)
    is_platform_url, \* info.is_platform_url
    is_vod,          \* info.is_vod
    handler,         \* self._handler is set
    tried,           \* _start_vod: what the yt-dlp runs of the start() in flight ended with
    errors,          \* the per-strategy diagnostics quoted in info.error_message
    status,          \* info.status
    error_message,   \* info.error_message: <<>> is ""
    generation,      \* self._generation
    stopping,        \* self._stopping
    restart_count,   \* self._restart_count
    restart_lock,    \* self._restart_lock: 0 free, k held by monitor k
    process,         \* self.process: 0 is None, k the transcoder of slot k
    feeder,          \* self._feeder: 0 is None, k the feeder of slot k
    pstate,          \* transcoder of slot k: "none" | "alive" | "dead"
    fstate,          \* feeder of slot k: "none" | "alive" | "dead"
    dir,             \* hls_dir exists
    ts,              \* hls_dir holds at least one *.ts segment
    tsof,            \* the slot whose transcoder wrote the oldest segment there (0: none)
    cached,          \* hls_dir holds source_video.* (the VOD download)
    nstarts,         \* slots handed out
    sgen,            \* gen of the start() call of slot k
    myslot,          \* slot of the start() call a thread is executing
    pc,              \* place of thread t \in Starters
    mproc,           \* monitor k: the process it waits for
    ret,             \* monitor k: ret
    attempt,         \* _try_restart of monitor k: attempt
    waited,          \* _try_restart of monitor k: ticks slept in the wait
    hpc,             \* place of the health check of slot k
    hproc,           \* health check k: proc
    tpc,             \* place of the token refresh of slot k
    cpc,             \* place of the recovery confirmation spawned by monitor k
    cgen,            \* its gen
    opc,             \* place of the request thread in stop() / cleanup()
    nstops,          \* stop() calls made
    streams,         \* StreamManager._streams: the keys (user_id, stream_id)
    sup,             \* the ManagedStream of a stream id, seen from the registry
    db,              \* the streams table: the record of a key
    ipc,             \* place of the initialisation task of a stream id
    loop,            \* what the event-loop thread is running
    result,          \* what the last registry call returned
    handlers,        \* StreamHandlerRegistry._handlers
    chosen,          \* the last get_handler call: its url and what it returned
    nadds,           \* add_handler calls made
    rows,            \* the streams table of the database: a set of rows
    users,           \* the users table: a set of rows
    useq,            \* the AUTOINCREMENT counter of users.id
    now,             \* time.time()
    nsaves,          \* save_stream calls made
    dbres            \* the last database call: its arguments and what it returned

supv == <<status, error_message, generation, stopping, restart_count, restart_lock>>
info == <<url, is_platform_url, is_vod, handler, tried, errors>>
procs == <<process, feeder, pstate, fstate>>
files == <<dir, ts, tsof, cached>>
slots == <<nstarts, sgen, myslot>>
monv == <<mproc, ret, attempt, waited>>
bgv == <<hpc, hproc, tpc, cpc, cgen>>
hv == <<handlers, chosen, nadds>>
dbv == <<rows, users, useq, now, nsaves, dbres>>
regv == <<streams, sup, db, ipc, loop, result, hv, dbv>>
opv == <<opc, nstops, regv>>
vars == <<supv, info, procs, files, slots, pc, monv, bgv, opv>>
\* The variables of the supervisor and of the stream registry.
appv == <<supv, info, procs, files, slots, pc, monv, bgv, opc, nstops,
          streams, sup, db, ipc, loop, result>>

\* StreamHandlerRegistry.__init__: the built-in handlers, in list order.
DefaultHandlers ==
    <<"TwitchHandler", "YouTubeHandler", "AmssKamereHandler", "GenericHandler">>
\* Handlers a caller of add_handler brings along: one that accepts the
\* Twitch URLs, one that accepts every URL, one that accepts none.
CustomHandlers == {"CustomTwitch", "CustomAll", "CustomNone"}
\* "No get_handler call yet".
NoChoice == [url |-> "", handler |-> ""]

\* "No database call yet"; session id 0 is None (no cookie).
NoDbRes == [op |-> "none", user_id |-> 0, stream_id |-> 0, ok |-> FALSE,
            recs |-> {}, session_id |-> 0, cookie |-> 0,
            args |-> [name |-> "", source_url |-> "", status |-> "",
                      error_message |-> "", is_platform_url |-> FALSE,
                      is_vod |-> FALSE]]

\* The registry: user ids, stream ids (uuid4().hex[:12], taken as fresh),
\* the name argument of add_stream_async ("" is None).
Users == 1..MaxUsers
Sids == 1..MaxStreams
Keys == Users \X Sids
NameArgs == {"", "cam"}

\* No ManagedStream has been built for the stream id.
NoSup == [user |-> 0, arg |-> "", name |-> "", status |-> "none",
          alive |-> FALSE, dir |-> FALSE]

\* No row of the streams table has the key.
NoRec == [name |-> "", status |-> "none"]

\* The event-loop thread is between two handlers.
LoopFree == [op |-> "free", user |-> 0, sid |-> 0, todo |-> {}]

\* The process has run stop_all and exits.
LoopDown == [op |-> "down", user |-> 0, sid |-> 0, todo |-> {}]

NoResult == [op |-> "none", user |-> 0, sid |-> 0, ok |-> FALSE, descs |-> {}]

\* "p and p.poll() is None"
Alive(p) == p # 0 /\ pstate[p] = "alive"

\* "gen != self._generation or self._stopping" is false.
Live(g) == g = generation /\ ~stopping

\* p.kill(): the process ends (nothing happens to one that has ended).
Kill(ps, p) == IF p # 0 /\ ps[p] = "alive" THEN [ps EXCEPT ![p] = "dead"] ELSE ps

\* The sleeping tasks whose captured generation differs from g return.
Retire(places, gens, g) ==
    [k \in K |-> IF places[k] = "sleep" /\ gens[k] # g THEN "none" ELSE places[k]]

\* The captured generations of the confirmations that Retire lets return.
RetireGen(places, gens, g) ==
    [k \in K |-> IF places[k] = "sleep" /\ gens[k] # g THEN 0 ELSE gens[k]]

\* The tasks that have passed their test and have not acted yet.
Suspended ==
    Cardinality({k \in K : hpc[k] = "kill"})
    + Cardinality({k \in K : tpc[k] = "kill"})
    + Cardinality({k \in K : cpc[k] = "reset"})

\* A thread-local variable of thread k is dropped.
Drop(f, k) == [f EXCEPT ![k] = 0]

\* ManagedStream.__init__ and StreamInfo as add_stream_async builds it.
Init ==
    /\ url \in Urls
    /\ is_platform_url = FALSE
    /\ is_vod = FALSE
    /\ handler = FALSE
    /\ status = "initializing"
    /\ error_message = <<>>
    /\ generation = 0
    /\ stopping = FALSE
    /\ restart_count = 0
    /\ restart_lock = 0
    /\ process = 0
    /\ feeder = 0
    /\ pstate = [k \in K |-> "none"]
    /\ fstate = [k \in K |-> "none"]
    /\ dir = TRUE
    /\ ts = FALSE
    /\ tsof = 0
    /\ cached = FALSE
    /\ tried = <<>>
    /\ errors = <<>>
    /\ nstarts = 0
    /\ sgen = [k \in K |-> 0]
    /\ myslot = [t \in Starters |-> 0]
    /\ pc = [t \in Starters |-> IF t = InitT THEN "i_info" ELSE IF t = ClientT THEN "idle" ELSE "none"]
    /\ mproc = [k \in K |-> 0]
    /\ ret = [k \in K |-> 0]
    /\ attempt = [k \in K |-> 0]
    /\ waited = [k \in K |-> 0]
    /\ hpc = [k \in K |-> "none"]
    /\ hproc = [k \in K |-> 0]
    /\ tpc = [k \in K |-> "none"]
    /\ cpc = [k \in K |-> "none"]
    /\ cgen = [k \in K |-> 0]
    /\ opc = "idle"
    /\ nstops = 0
    /\ streams = {}
    /\ sup = [s \in Sids |-> NoSup]
    /\ db = [key \in Keys |-> NoRec]
    /\ ipc = [s \in Sids |-> "none"]
    /\ loop = LoopFree
    /\ result = NoResult
    /\ handlers = DefaultHandlers
    /\ chosen = NoChoice
    /\ nadds = 0
    /\ rows = {}
    /\ users = {}
    /\ useq = 0
    /\ now = 0
    /\ nsaves = 0
    /\ dbres = NoDbRes

----------------------------------------------------------------------------
(* _initialize_stream_background *)

\* Lines 889-924: handler lookup, metadata, descriptor update.
InitInfo ==
    /\ pc[InitT] = "i_info"
    /\ is_platform_url' = HandlerIsPlatform(url)
    /\ is_vod' = MetadataIsVod(url)
    /\ handler' = TRUE
    /\ pc' = [pc EXCEPT ![InitT] = "call"]
    /\ UNCHANGED <<url, tried, errors, supv, procs, files, slots, monv, bgv, opv>>

----------------------------------------------------------------------------
(* ManagedStream.start *)

\* Where the caller of start() goes on when start() returns: _try_restart
\* (lines 759-766) spawns _confirm_recovery with the generation of this
\* moment and its thread ends.
AfterStart(t) == "done"

ConfirmSpawned(t) == IF t \in K THEN [cpc EXCEPT ![t] = "sleep"] ELSE cpc

ConfirmGen(t) == IF t \in K THEN [cgen EXCEPT ![t] = generation] ELSE cgen

\* The locals of the caller that are dropped at the end of its thread.
CallerLocals(f, t) == IF t \in K THEN [f EXCEPT ![t] = 0] ELSE f

\* A faulty dispatch that pipes every platform source, whatever its handler
\* returns as feeder command.
LaunchModePlatformPiped ==
    IF is_vod THEN "s_vod"
    ELSE IF is_platform_url THEN "s_piped"
    ELSE "s_ffmpeg"

\* Lines 242-255: the launch mode.
LaunchMode ==
    IF is_vod THEN "s_vod"
    ELSE IF is_platform_url /\ handler /\ FeederCommand(url) THEN "s_piped"
    ELSE "s_ffmpeg"

\* A faulty start(): the stop flag is reset before the "already running"
\* test instead of after it.
StartTestResets(t) ==
    /\ stopping' = FALSE
    /\ IF Alive(process)
       THEN /\ pc' = [pc EXCEPT ![t] = AfterStart(t)]
            /\ cpc' = ConfirmSpawned(t)
            /\ cgen' = ConfirmGen(t)
            /\ attempt' = CallerLocals(attempt, t)
            /\ waited' = CallerLocals(waited, t)
            /\ mproc' = CallerLocals(mproc, t)
            /\ UNCHANGED slots
       ELSE /\ nstarts < MaxStarts
            /\ nstarts' = nstarts + 1
            /\ myslot' = [myslot EXCEPT ![t] = nstarts + 1]
            /\ pc' = [pc EXCEPT ![t] = "s_bump"]
            /\ UNCHANGED <<sgen, cpc, cgen, attempt, waited, mproc>>
    /\ UNCHANGED <<status, error_message, generation, restart_count, restart_lock>>
    /\ UNCHANGED <<info, procs, files, ret, hpc, hproc, tpc, opv>>

\* Lines 215-219: the "already running" test and the reset of the stop flag.
StartTest(t) ==
    /\ IF Alive(process)
       THEN /\ pc' = [pc EXCEPT ![t] = AfterStart(t)]
            /\ cpc' = ConfirmSpawned(t)
            /\ cgen' = ConfirmGen(t)
            /\ attempt' = CallerLocals(attempt, t)
            /\ waited' = CallerLocals(waited, t)
            /\ mproc' = CallerLocals(mproc, t)
            /\ UNCHANGED <<slots, stopping>>
       ELSE /\ nstarts < MaxStarts
            /\ nstarts' = nstarts + 1
            /\ myslot' = [myslot EXCEPT ![t] = nstarts + 1]
            /\ stopping' = FALSE
            /\ pc' = [pc EXCEPT ![t] = "s_bump"]
            /\ UNCHANGED <<sgen, cpc, cgen, attempt, waited, mproc>>
    /\ UNCHANGED <<status, error_message, generation, restart_count, restart_lock>>
    /\ UNCHANGED <<info, procs, files, ret, hpc, hproc, tpc, opv>>

\* Line 212: start() is entered by the initialisation task or by _try_restart.
StartCall(t) ==
    /\ pc[t] = "call"
    /\ StartTest(t)

\* A faulty start(): line 222 adds two.
StartBumpTwice(t) ==
    /\ pc[t] = "s_bump"
    /\ generation' = generation + 2
    /\ pc' = [pc EXCEPT ![t] = "s_gen"]
    /\ hpc' = Retire(hpc, sgen, generation')
    /\ tpc' = Retire(tpc, sgen, generation')
    /\ cpc' = Retire(cpc, cgen, generation')
    /\ cgen' = RetireGen(cpc, cgen, generation')
    /\ UNCHANGED <<status, error_message, stopping, restart_count, restart_lock>>
    /\ UNCHANGED hproc
    /\ UNCHANGED <<info, procs, files, slots, monv, opv>>

\* Line 222.
StartBump(t) ==
    /\ pc[t] = "s_bump"
    /\ generation' = generation + 1
    /\ pc' = [pc EXCEPT ![t] = "s_gen"]
    /\ hpc' = Retire(hpc, sgen, generation')
    /\ tpc' = Retire(tpc, sgen, generation')
    /\ cpc' = Retire(cpc, cgen, generation')
    /\ cgen' = RetireGen(cpc, cgen, generation')
    /\ UNCHANGED <<status, error_message, stopping, restart_count, restart_lock>>
    /\ UNCHANGED hproc
    /\ UNCHANGED <<info, procs, files, slots, monv, opv>>

\* Lines 226, 231 and 236: the suffixes of the files that start() unlinks.
PurgeGlobs == {"ts", "m3u8", "part"}

\* The suffix of hls_dir/source_video.<ext> as _start_vod accepts it (lines
\* 358-362 and 424-428 skip .ts, .m3u8, .log and .part): the container that
\* yt-dlp picks for "-f best".
AssetSuffix == "mp4"

\* A faulty purge that unlinks nothing.
AfterPurgeNothing(present, suffix) == present

\* Whether a file with this suffix is there after the purge.
AfterPurge(present, suffix) == present /\ suffix \notin PurgeGlobs

\* A faulty start(): the purge unlinks every file of hls_dir.
StartPurgeAll(t) ==
    /\ pc[t] = "s_gen"
    /\ sgen' = [sgen EXCEPT ![myslot[t]] = generation]
    /\ ts' = FALSE
    /\ tsof' = 0
    /\ cached' = FALSE
    /\ pc' = [pc EXCEPT ![t] = LaunchMode]
    /\ UNCHANGED <<nstarts, myslot, dir>>
    /\ UNCHANGED <<supv, info, procs, monv, bgv, opv>>

\* Lines 223-240: gen = self._generation; *.ts, *.m3u8 and *.part are
\* unlinked.
StartPurge(t) ==
    /\ pc[t] = "s_gen"
    /\ sgen' = [sgen EXCEPT ![myslot[t]] = generation]
    /\ ts' = AfterPurge(ts, "ts")
    /\ tsof' = IF ts' THEN tsof ELSE 0
    /\ cached' = AfterPurge(cached, AssetSuffix)
    /\ pc' = [pc EXCEPT ![t] = LaunchMode]
    /\ UNCHANGED <<nstarts, myslot, dir>>
    /\ UNCHANGED <<supv, info, procs, monv, bgv, opv>>

\* _start_vod, lines 358-367: reuse the cached download or announce one.
StartVod(t) ==
    /\ pc[t] = "s_vod"
    /\ IF cached
       THEN /\ pc' = [pc EXCEPT ![t] = "s_ffmpeg"]
            /\ UNCHANGED status
       ELSE /\ status' = "downloading"
            /\ pc' = [pc EXCEPT ![t] = "s_download"]
    /\ UNCHANGED <<error_message, generation, stopping, restart_count, restart_lock>>
    /\ UNCHANGED <<info, procs, files, slots, monv, bgv, opv>>

\* _start_vod, lines 371-385: the strategies, by their descriptions.
Strategies == <<"without cookies", "with Chrome cookies">>

\* How a yt-dlp run ends: return code 0; a failure whose stderr holds
\* "Sign in to confirm"; any other failure.
FetchOutcomes == {"ok", "auth", "other"}

\* A faulty chain that tries the next strategy after every failure.
MovesOnAlways(out) == TRUE

\* Line 413: the loop goes on after a failure only when stderr holds
\* "Sign in to confirm".
MovesOn(out) == out = "auth"

\* Lines 390-414: the runs that the loop makes when strategy i would end with
\* outs[i], from strategy i on: break at return code 0 (407-409), break at
\* a failure that is no bot detection (413-414), end of the list.
RECURSIVE Attempts(_, _)
Attempts(outs, i) ==
    IF i > Len(Strategies) THEN <<>>
    ELSE IF outs[i] # "ok" /\ MovesOn(outs[i])
         THEN <<outs[i]>> \o Attempts(outs, i + 1)
         ELSE <<outs[i]>>

\* Lines 410-420: error_messages joined into the RuntimeError when the last
\* run failed: "<description>: <stderr>" per run that was made.
Raised(tr) ==
    IF tr # <<>> /\ tr[Len(tr)] # "ok"
    THEN [i \in 1..Len(tr) |-> <<Strategies[i], tr[i]>>]
    ELSE <<>>

\* _start_vod, lines 370-434: the strategy loop; yt-dlp writes
\* hls_dir/source_video.<ext> (creating the directory), or the last run
\* failed and RuntimeError is raised (416-420), or no file is there (430).
StartDownload(t) ==
    /\ pc[t] = "s_download"
    /\ \E outs \in [1..Len(Strategies) -> FetchOutcomes], file \in BOOLEAN :
         /\ tried' = Attempts(outs, 1)
         /\ IF Raised(tried') = <<>> /\ file
            THEN /\ cached' = TRUE
                 /\ dir' = TRUE
                 /\ pc' = [pc EXCEPT ![t] = "s_ffmpeg"]
            ELSE /\ pc' = [pc EXCEPT ![t] = "s_fail"]
                 /\ UNCHANGED <<cached, dir>>
    /\ UNCHANGED <<ts, tsof>>
    /\ UNCHANGED <<url, is_platform_url, is_vod, handler, errors>>
    /\ UNCHANGED <<supv, procs, slots, monv, bgv, opv>>

\* _start_piped, lines 306-322: Popen of the feeder (raises when the tool is
\* missing), open of ffmpeg_stderr.log in hls_dir (raises when the directory
\* is gone), Popen of FFmpeg (raises when it is missing).
StartPiped(t) ==
    /\ pc[t] = "s_piped"
    /\ \E fok \in BOOLEAN, ok \in BOOLEAN :
         IF ~fok
         THEN /\ pc' = [pc EXCEPT ![t] = "s_fail"]
              /\ UNCHANGED <<process, feeder, pstate, fstate>>
         ELSE /\ fstate' = [fstate EXCEPT ![myslot[t]] = "alive"]
              /\ feeder' = myslot[t]
              /\ IF dir /\ ok
                 THEN /\ pstate' = [pstate EXCEPT ![myslot[t]] = "alive"]
                      /\ process' = myslot[t]
                      /\ pc' = [pc EXCEPT ![t] = "s_run"]
                 ELSE /\ pc' = [pc EXCEPT ![t] = "s_fail"]
                      /\ UNCHANGED <<process, pstate>>
    /\ UNCHANGED <<supv, info, files, slots, monv, bgv, opv>>

\* _start_direct, lines 345-351, and _start_vod, lines 441-447: open of the
\* log, Popen of FFmpeg.
StartFfmpeg(t) ==
    /\ pc[t] = "s_ffmpeg"
    /\ \E ok \in BOOLEAN :
         IF dir /\ ok
         THEN /\ pstate' = [pstate EXCEPT ![myslot[t]] = "alive"]
              /\ process' = myslot[t]
              /\ pc' = [pc EXCEPT ![t] = "s_run"]
         ELSE /\ pc' = [pc EXCEPT ![t] = "s_fail"]
              /\ UNCHANGED <<process, pstate>>
    /\ tried' = <<>>
    /\ UNCHANGED <<feeder, fstate>>
    /\ UNCHANGED <<url, is_platform_url, is_vod, handler, errors>>
    /\ UNCHANGED <<supv, files, slots, monv, bgv, opv>>

\* A faulty start(): the except branch goes on to spawn the monitor.
StartFailSpawns(t) ==
    /\ pc[t] = "s_fail"
    /\ status' = "error"
    /\ error_message' = <<"launch failed">>
    /\ errors' = Raised(tried)
    /\ tried' = <<>>
    /\ pc' = [pc EXCEPT ![t] = AfterStart(t), ![myslot[t]] = "m_begin"]
    /\ cpc' = ConfirmSpawned(t)
    /\ cgen' = ConfirmGen(t)
    /\ attempt' = CallerLocals(attempt, t)
    /\ waited' = CallerLocals(waited, t)
    /\ mproc' = CallerLocals(mproc, t)
    /\ myslot' = Drop(myslot, t)
    /\ UNCHANGED <<nstarts, sgen>>
    /\ UNCHANGED <<generation, stopping, restart_count, restart_lock>>
    /\ UNCHANGED <<url, is_platform_url, is_vod, handler>>
    /\ UNCHANGED <<procs, files, ret, hpc, hproc, tpc, opv>>

\* Lines 256-260: the except branch.
StartFail(t) ==
    /\ pc[t] = "s_fail"
    /\ status' = "error"
    /\ error_message' = <<"launch failed">>
    /\ errors' = Raised(tried)
    /\ tried' = <<>>
    /\ pc' = [pc EXCEPT ![t] = AfterStart(t)]
    /\ cpc' = ConfirmSpawned(t)
    /\ cgen' = ConfirmGen(t)
    /\ attempt' = CallerLocals(attempt, t)
    /\ waited' = CallerLocals(waited, t)
    /\ mproc' = CallerLocals(mproc, t)
    /\ myslot' = Drop(myslot, t)
    /\ UNCHANGED <<nstarts, sgen>>
    /\ UNCHANGED <<generation, stopping, restart_count, restart_lock>>
    /\ UNCHANGED <<url, is_platform_url, is_vod, handler>>
    /\ UNCHANGED <<procs, files, ret, hpc, hproc, tpc, opv>>

\* A faulty start(): line 262 writes "starting".
StartRunStarting(t) ==
    /\ pc[t] = "s_run"
    /\ status' = "starting"
    /\ pc' = [pc EXCEPT ![t] = "s_tail"]
    /\ UNCHANGED <<error_message, generation, stopping, restart_count, restart_lock>>
    /\ UNCHANGED <<info, procs, files, slots, monv, bgv, opv>>

\* A faulty start(): the monitor is spawned before line 262 instead of
\* at line 267.
StartRunSpawning(t) ==
    /\ pc[t] = "s_run"
    /\ status' = "running"
    /\ pc' = [pc EXCEPT ![t] = "s_tail", ![myslot[t]] = "m_begin"]
    /\ UNCHANGED <<error_message, generation, stopping, restart_count, restart_lock>>
    /\ UNCHANGED <<info, procs, files, slots, monv, bgv, opv>>

\* Line 262.
StartRun(t) ==
    /\ pc[t] = "s_run"
    /\ status' = "running"
    /\ pc' = [pc EXCEPT ![t] = "s_tail"]
    /\ UNCHANGED <<error_message, generation, stopping, restart_count, restart_lock>>
    /\ UNCHANGED <<info, procs, files, slots, monv, bgv, opv>>

\* Where a task of generation g is when it starts to sleep: one whose
\* generation is stale returns at its first tick.
Sleep(g) == IF g = generation THEN "sleep" ELSE "none"

\* Lines 273-278: the health check is spawned for platform sources and VODs.
SpawnHealth(k) ==
    IF is_platform_url \/ is_vod THEN Sleep(sgen[k]) ELSE "none"

\* A faulty start() without the test of line 279.
SpawnRefreshForVod(k) ==
    IF is_platform_url \/ is_vod THEN Sleep(sgen[k]) ELSE "none"

\* Lines 273 and 279-284: the token refresh is spawned for live ones only.
SpawnRefresh(k) ==
    IF (is_platform_url \/ is_vod) /\ ~is_vod THEN Sleep(sgen[k]) ELSE "none"

\* Lines 263-284: clear the message and spawn the threads of this generation.
StartTail(t) ==
    /\ pc[t] = "s_tail"
    /\ error_message' = <<>>
    /\ pc' = [pc EXCEPT ![t] = AfterStart(t), ![myslot[t]] = "m_begin"]
    /\ hpc' = [hpc EXCEPT ![myslot[t]] = SpawnHealth(myslot[t])]
    /\ tpc' = [tpc EXCEPT ![myslot[t]] = SpawnRefresh(myslot[t])]
    /\ cpc' = ConfirmSpawned(t)
    /\ cgen' = ConfirmGen(t)
    /\ attempt' = CallerLocals(attempt, t)
    /\ waited' = CallerLocals(waited, t)
    /\ mproc' = CallerLocals(mproc, t)
    /\ myslot' = Drop(myslot, t)
    /\ UNCHANGED <<nstarts, sgen>>
    /\ UNCHANGED <<status, generation, stopping, restart_count, restart_lock>>
    /\ UNCHANGED <<hproc, ret>>
    /\ UNCHANGED <<info, procs, files, opv>>

Start(t) ==
    \/ StartCall(t)
    \/ StartBump(t)
    \/ StartPurge(t)
    \/ StartVod(t)
    \/ StartDownload(t)
    \/ StartPiped(t)
    \/ StartFfmpeg(t)
    \/ StartFail(t)
    \/ StartRun(t)
    \/ StartTail(t)

----------------------------------------------------------------------------
(* ManagedStream._monitor *)

\* The thread of monitor k ends.
MonitorEnds(k) ==
    /\ pc' = [pc EXCEPT ![k] = "done"]
    /\ mproc' = Drop(mproc, k)
    /\ ret' = Drop(ret, k)
    /\ attempt' = Drop(attempt, k)
    /\ waited' = Drop(waited, k)

\* Lines 574-577: "if not self.process: return", then the call of wait().
MonBegin(k) ==
    /\ pc[k] = "m_begin"
    /\ IF process = 0
       THEN MonitorEnds(k)
       ELSE /\ mproc' = [mproc EXCEPT ![k] = process]
            /\ pc' = [pc EXCEPT ![k] = "m_wait"]
            /\ UNCHANGED <<ret, attempt, waited>>
    /\ UNCHANGED <<supv, info, procs, files, slots, bgv, opv>>

\* A faulty monitor without lines 580-584: the feeder is left alone.
MonWaitNoFeederKill(k) ==
    /\ pc[k] = "m_wait"
    /\ pstate[mproc[k]] = "dead"
    /\ \E rc \in ExitCodes : ret' = [ret EXCEPT ![k] = rc]
    /\ pc' = [pc EXCEPT ![k] = "m_check"]
    /\ UNCHANGED <<mproc, attempt, waited>>
    /\ UNCHANGED <<process, feeder, pstate, fstate>>
    /\ UNCHANGED <<supv, info, files, slots, bgv, opv>>

\* Lines 577-584: wait() returns once the process has ended; then whatever
\* self._feeder refers to now is killed.
MonWait(k) ==
    /\ pc[k] = "m_wait"
    /\ pstate[mproc[k]] = "dead"
    /\ \E rc \in ExitCodes : ret' = [ret EXCEPT ![k] = rc]
    /\ fstate' = Kill(fstate, feeder)
    /\ pc' = [pc EXCEPT ![k] = "m_check"]
    /\ UNCHANGED <<mproc, attempt, waited>>
    /\ UNCHANGED <<process, feeder, pstate>>
    /\ UNCHANGED <<supv, info, files, slots, bgv, opv>>

\* A faulty monitor without the test of line 587.
MonCheckNoStaleTest(k) ==
    /\ pc[k] = "m_check"
    /\ IF is_platform_url
       THEN /\ pc' = [pc EXCEPT ![k] = "r_lock"]
            /\ ret' = Drop(ret, k)
            /\ UNCHANGED <<mproc, attempt, waited>>
       ELSE /\ pc' = [pc EXCEPT ![k] = "m_branch"]
            /\ UNCHANGED monv
    /\ UNCHANGED <<supv, info, procs, files, slots, bgv, opv>>

\* A faulty monitor: every source enters _try_restart.
MonCheckAlwaysRestart(k) ==
    /\ pc[k] = "m_check"
    /\ IF ~Live(sgen[k])
       THEN MonitorEnds(k)
       ELSE /\ pc' = [pc EXCEPT ![k] = "r_lock"]
            /\ ret' = Drop(ret, k)
            /\ UNCHANGED <<mproc, attempt, waited>>
    /\ UNCHANGED <<supv, info, procs, files, slots, bgv, opv>>

\* Lines 587-602: "if gen != self._generation or self._stopping: return";
\* the stderr tail is logged; a platform source enters _try_restart whatever
\* ret is.
MonCheck(k) ==
    /\ pc[k] = "m_check"
    /\ IF ~Live(sgen[k])
       THEN MonitorEnds(k)
       ELSE IF is_platform_url
       THEN /\ pc' = [pc EXCEPT ![k] = "r_lock"]
            /\ ret' = Drop(ret, k)
            /\ UNCHANGED <<mproc, attempt, waited>>
       ELSE /\ pc' = [pc EXCEPT ![k] = "m_branch"]
            /\ UNCHANGED monv
    /\ UNCHANGED <<supv, info, procs, files, slots, bgv, opv>>

\* Lines 604-624, the other sources: "stopped" when ret == 0, else "error"
\* and f"FFmpeg exited with code {ret}".
MonBranch(k) ==
    /\ pc[k] = "m_branch"
    /\ IF ret[k] = 0
       THEN /\ status' = "stopped"
            /\ UNCHANGED error_message
       ELSE /\ status' = "error"
            /\ error_message' = <<"FFmpeg exited with code", ret[k]>>
    /\ MonitorEnds(k)
    /\ UNCHANGED <<generation, stopping, restart_count, restart_lock>>
    /\ UNCHANGED <<info, procs, files, slots, bgv, opv>>

Monitor(k) ==
    \/ MonBegin(k)
    \/ MonWait(k)
    \/ MonCheck(k)
    \/ MonBranch(k)

----------------------------------------------------------------------------
(* ManagedStream._try_restart, run by the monitor thread *)

Pow2(n) == IF n <= 0 THEN 1 ELSE 2 ^ n

\* A faulty back-off: linear, uncapped.
DelayLinear(a) == BACKOFF_BASE * a

\* Line 741: min(3 * (2 ** (attempt - 1)), 30), for attempt >= 1.
Delay(a) ==
    IF BACKOFF_BASE * Pow2(a - 1) < BACKOFF_CAP
    THEN BACKOFF_BASE * Pow2(a - 1)
    ELSE BACKOFF_CAP

\* Lines 741-750 for the value of attempt: with attempt = 0 the power
\* 2 ** -1 is the float 0.5, delay is 1.5 and range(delay) raises TypeError,
\* which ends the thread.
PlaceAfterDelay(a) == IF a >= 1 THEN "r_wait" ELSE "crashed"

\* Lines 731-734: take self._restart_lock; stale or stopping: return (the
\* with block frees the lock).
RestartCheck(k) ==
    /\ pc[k] = "r_lock"
    /\ restart_lock = 0
    /\ IF Live(sgen[k])
       THEN /\ restart_lock' = k
            /\ pc' = [pc EXCEPT ![k] = "r_inc"]
            /\ UNCHANGED monv
       ELSE /\ MonitorEnds(k)
            /\ UNCHANGED restart_lock
    /\ UNCHANGED <<status, error_message, generation, stopping, restart_count>>
    /\ UNCHANGED <<info, procs, files, slots, bgv, opv>>

\* Line 736.
RestartIncrement(k) ==
    /\ pc[k] = "r_inc"
    /\ restart_count' = restart_count + 1
    /\ pc' = [pc EXCEPT ![k] = "r_attempt"]
    /\ UNCHANGED <<status, error_message, generation, stopping, restart_lock>>
    /\ UNCHANGED <<info, procs, files, slots, monv, bgv, opv>>

\* Lines 737-750: attempt = self._restart_count; status "restarting"; the
\* lock is freed; delay is computed and the wait begins.
RestartAttempt(k) ==
    /\ pc[k] = "r_attempt"
    /\ attempt' = [attempt EXCEPT ![k] = restart_count]
    /\ status' = "restarting"
    /\ restart_lock' = 0
    /\ pc' = [pc EXCEPT ![k] = PlaceAfterDelay(restart_count)]
    /\ UNCHANGED <<mproc, ret, waited>>
    /\ UNCHANGED <<error_message, generation, stopping, restart_count>>
    /\ UNCHANGED <<info, procs, files, slots, bgv, opv>>

\* A faulty wait: the tick does not look at self._stopping.
RestartTickDeaf(k) ==
    /\ pc[k] = "r_wait"
    /\ waited[k] < Delay(attempt[k])
    /\ waited' = [waited EXCEPT ![k] = waited[k] + 1]
    /\ UNCHANGED <<pc, mproc, ret, attempt>>
    /\ UNCHANGED <<supv, info, procs, files, slots, bgv, opv>>

\* Lines 750-753: one tick of the wait: sleep(1), then "if self._stopping: return".
RestartTick(k) ==
    /\ pc[k] = "r_wait"
    /\ waited[k] < Delay(attempt[k])
    /\ IF stopping
       THEN MonitorEnds(k)
       ELSE /\ waited' = [waited EXCEPT ![k] = waited[k] + 1]
            /\ UNCHANGED <<pc, mproc, ret, attempt>>
    /\ UNCHANGED <<supv, info, procs, files, slots, bgv, opv>>

\* Lines 755-759: the last test of self._stopping, then the call of start().
RestartFinal(k) ==
    /\ pc[k] = "r_wait"
    /\ waited[k] = Delay(attempt[k])
    /\ IF stopping
       THEN MonitorEnds(k)
       ELSE /\ pc' = [pc EXCEPT ![k] = "call"]
            /\ UNCHANGED monv
    /\ UNCHANGED <<supv, info, procs, files, slots, bgv, opv>>

TryRestart(k) ==
    \/ RestartCheck(k)
    \/ RestartIncrement(k)
    \/ RestartAttempt(k)
    \/ RestartTick(k)
    \/ RestartFinal(k)

----------------------------------------------------------------------------
(* ManagedStream._health_check *)

\* Lines 634-664 and 670-684: a sleep loop ends and the while test passes;
\* proc = self.process; return when it has ended; the age of the newest
\* segment (the time since the launch when there is none) is over its
\* threshold or it is not.
HealthProbe(k) ==
    /\ hpc[k] = "sleep"
    /\ Live(sgen[k])
    /\ IF ~Alive(process)
       THEN /\ hpc' = [hpc EXCEPT ![k] = "none"]
            /\ UNCHANGED hproc
       ELSE /\ Suspended < MaxSuspended
            /\ hproc' = [hproc EXCEPT ![k] = process]
            /\ hpc' = [hpc EXCEPT ![k] = "kill"]
    /\ UNCHANGED <<tpc, cpc, cgen>>
    /\ UNCHANGED <<supv, info, procs, files, slots, pc, monv, opv>>

\* Lines 659-669 and 685-689: what self._feeder refers to is killed, then
\* proc; return.
HealthKill(k) ==
    /\ hpc[k] = "kill"
    /\ fstate' = Kill(fstate, feeder)
    /\ pstate' = Kill(pstate, hproc[k])
    /\ hpc' = [hpc EXCEPT ![k] = "none"]
    /\ hproc' = Drop(hproc, k)
    /\ UNCHANGED <<process, feeder>>
    /\ UNCHANGED <<tpc, cpc, cgen>>
    /\ UNCHANGED <<supv, info, files, slots, pc, monv, opv>>

HealthCheck(k) ==
    \/ HealthProbe(k)
    \/ HealthKill(k)

----------------------------------------------------------------------------
(* ManagedStream._periodic_token_refresh *)

\* Lines 703-709: the interval is over and the test of line 708 passes.
RefreshExpire(k) ==
    /\ tpc[k] = "sleep"
    /\ Live(sgen[k])
    /\ Suspended < MaxSuspended
    /\ tpc' = [tpc EXCEPT ![k] = "kill"]
    /\ UNCHANGED <<hpc, hproc, cpc, cgen>>
    /\ UNCHANGED <<supv, info, procs, files, slots, pc, monv, opv>>

\* A faulty refresh that ends the feeder and leaves the transcoder running.
RefreshKillFeederOnly(k) ==
    /\ tpc[k] = "kill"
    /\ fstate' = Kill(fstate, feeder)
    /\ tpc' = [tpc EXCEPT ![k] = "none"]
    /\ UNCHANGED <<process, feeder, pstate>>
    /\ UNCHANGED <<hpc, hproc, cpc, cgen>>
    /\ UNCHANGED <<supv, info, files, slots, pc, monv, opv>>

\* Lines 713-725: self._feeder and self.process are killed.
RefreshKill(k) ==
    /\ tpc[k] = "kill"
    /\ fstate' = Kill(fstate, feeder)
    /\ pstate' = Kill(pstate, process)
    /\ tpc' = [tpc EXCEPT ![k] = "none"]
    /\ UNCHANGED <<process, feeder>>
    /\ UNCHANGED <<hpc, hproc, cpc, cgen>>
    /\ UNCHANGED <<supv, info, files, slots, pc, monv, opv>>

TokenRefresh(k) ==
    \/ RefreshExpire(k)
    \/ RefreshKill(k)

----------------------------------------------------------------------------
(* ManagedStream._confirm_recovery *)

\* A faulty confirmation: line 776 does not look at ts_files.
ConfirmCheckBlind(k) ==
    /\ cpc[k] = "sleep"
    /\ Live(cgen[k])
    /\ Suspended < MaxSuspended
    /\ cpc' = [cpc EXCEPT ![k] = "reset"]
    /\ UNCHANGED <<hpc, hproc, tpc, cgen>>
    /\ UNCHANGED <<supv, info, procs, files, slots, pc, monv, opv>>

\* Lines 770-776: the window is over with the generation current and no
\* stop requested; "if ts_files and gen == self._generation".
ConfirmCheck(k) ==
    /\ cpc[k] = "sleep"
    /\ Live(cgen[k])
    /\ ts => Suspended < MaxSuspended
    /\ cpc' = [cpc EXCEPT ![k] = IF ts THEN "reset" ELSE "none"]
    /\ cgen' = IF ts THEN cgen ELSE Drop(cgen, k)
    /\ UNCHANGED <<hpc, hproc, tpc>>
    /\ UNCHANGED <<supv, info, procs, files, slots, pc, monv, opv>>

\* Line 782.
ConfirmReset(k) ==
    /\ cpc[k] = "reset"
    /\ restart_count' = 0
    /\ cpc' = [cpc EXCEPT ![k] = "none"]
    /\ cgen' = Drop(cgen, k)
    /\ UNCHANGED <<status, error_message, generation, stopping, restart_lock>>
    /\ UNCHANGED <<hpc, hproc, tpc>>
    /\ UNCHANGED <<info, procs, files, slots, pc, monv, opv>>

ConfirmRecovery(k) ==
    \/ ConfirmCheck(k)
    \/ ConfirmReset(k)

----------------------------------------------------------------------------
(* ManagedStream.stop and cleanup, called by remove_stream and stop_all *)

\* Lines 450-451.
StopEnter ==
    /\ stopping' = TRUE
    /\ generation' = generation + 1
    /\ hpc' = Retire(hpc, sgen, generation')
    /\ tpc' = Retire(tpc, sgen, generation')
    /\ cpc' = Retire(cpc, cgen, generation')
    /\ cgen' = RetireGen(cpc, cgen, generation')
    /\ opc' = "o_kill"
    /\ nstops' = nstops + 1
    /\ UNCHANGED regv
    /\ UNCHANGED <<status, error_message, restart_count, restart_lock>>
    /\ UNCHANGED hproc
    /\ UNCHANGED <<info, procs, files, slots, pc, monv>>

\* Line 449: stop() is called by cleanup() for remove_stream, or by stop_all.
StopFlag ==
    /\ opc = "idle"
    /\ StopEnter

\* What signalling a child process can do: it ends in time, it does not end
\* within the timeout of wait(), or the call raises (the child is gone, the
\* signal is refused).
SignalOutcomes == {"ended", "timeout", "raised"}

\* Lines 454-458: kill() and wait(timeout=3) stand in one try block whose
\* "except Exception: pass" lets control reach line 460 on every outcome.
AfterFeeder(out) == "o_proc"

\* A faulty stop(): the transcoder is signalled outside any try block, so an
\* exception of send_signal() leaves stop() before line 476.
AfterProcessUnguarded(out) == IF out = "raised" THEN "raised" ELSE "stopped"

\* Lines 462-476: TimeoutExpired and every other exception of send_signal()
\* and wait(timeout=5) are caught at 465-468 and answered with kill(), which
\* returns quietly for a process already reaped; closing the log is guarded
\* as well (471-474), so line 476 is reached on every outcome.
AfterProcess(out) == "stopped"

\* A faulty stop(): the transcoder is signalled at lines 453-458 and the
\* feeder is left to the second half.
StopFeederLate ==
    /\ opc = "o_kill"
    /\ pstate' = Kill(pstate, process)
    /\ opc' = "o_proc"
    /\ UNCHANGED <<nstops, regv>>
    /\ UNCHANGED <<process, feeder, fstate>>
    /\ UNCHANGED <<supv, info, files, slots, pc, monv, bgv>>

\* Lines 453-458: "Kill feeder first": what self._feeder refers to is
\* killed when it is alive (an exception of kill() or wait() is swallowed).
StopFeeder ==
    /\ opc = "o_kill"
    /\ fstate' = Kill(fstate, feeder)
    /\ \E out \in SignalOutcomes : opc' = AfterFeeder(out)
    /\ UNCHANGED <<nstops, regv>>
    /\ UNCHANGED <<process, feeder, pstate>>
    /\ UNCHANGED <<supv, info, files, slots, pc, monv, bgv>>

\* A faulty stop(): the status is written only when a transcoder was
\* signalled.
StopKillIfAlive ==
    /\ opc = "o_proc"
    /\ pstate' = Kill(pstate, process)
    /\ status' = IF Alive(process) THEN "stopped" ELSE status
    /\ opc' = "stopped"
    /\ UNCHANGED <<nstops, regv>>
    /\ UNCHANGED <<process, feeder, fstate>>
    /\ UNCHANGED <<error_message, generation, stopping, restart_count, restart_lock>>
    /\ UNCHANGED <<info, files, slots, pc, monv, bgv>>

\* Lines 460-476: the transcoder gets SIGINT when it is alive, is waited for
\* and killed on timeout; the log handle is closed; the status becomes
\* "stopped".
StopKill ==
    /\ opc = "o_proc"
    /\ pstate' = Kill(pstate, process)
    /\ \E out \in SignalOutcomes : opc' = AfterProcess(out)
    /\ status' = IF opc' = "stopped" THEN "stopped" ELSE status
    /\ UNCHANGED <<nstops, regv>>
    /\ UNCHANGED <<process, feeder, fstate>>
    /\ UNCHANGED <<error_message, generation, stopping, restart_count, restart_lock>>
    /\ UNCHANGED <<info, files, slots, pc, monv, bgv>>

\* remove_stream: cleanup, lines 481-482: shutil.rmtree(self.hls_dir).
CleanupRmtree ==
    /\ opc = "stopped"
    /\ dir' = FALSE
    /\ ts' = FALSE
    /\ tsof' = 0
    /\ cached' = FALSE
    /\ opc' = "removed"
    /\ UNCHANGED <<nstops, regv>>
    /\ UNCHANGED <<supv, info, procs, slots, pc, monv, bgv>>

Stop ==
    \/ StopFlag
    \/ StopFeeder
    \/ StopKill
    \/ CleanupRmtree

----------------------------------------------------------------------------
(* The processes *)

\* A transcoder ends by itself.
TranscoderExits(k) ==
    /\ pstate[k] = "alive"
    /\ pstate' = [pstate EXCEPT ![k] = "dead"]
    /\ UNCHANGED <<process, feeder, fstate>>
    /\ UNCHANGED <<supv, info, files, slots, pc, monv, bgv, opv>>

\* A running transcoder writes a segment into hls_dir: the first one there,
\* or one of an older launch than the segments there.
SegmentWritten(k) ==
    /\ pstate[k] = "alive"
    /\ dir
    /\ ~ts \/ k < tsof
    /\ ts' = TRUE
    /\ tsof' = k
    /\ UNCHANGED <<dir, cached>>
    /\ UNCHANGED <<supv, info, procs, slots, pc, monv, bgv, opv>>

----------------------------------------------------------------------------
(* A client of ManagedStream calling start() itself *)

\* Line 212: the client enters start() once, while the transcoder runs.
ClientCall ==
    /\ pc[ClientT] = "idle"
    /\ Alive(process)
    /\ StartTest(ClientT)

----------------------------------------------------------------------------
Next ==
    \/ InitInfo
    \/ \E t \in Starters : Start(t)
    \/ \E k \in K : Monitor(k)
    \/ \E k \in K : TryRestart(k)
    \/ \E k \in K : HealthCheck(k)
    \/ \E k \in K : TokenRefresh(k)
    \/ \E k \in K : ConfirmRecovery(k)
    \/ Stop
    \/ \E k \in K : TranscoderExits(k)
    \/ \E k \in K : SegmentWritten(k)

\* The application: start() is called by the initialisation task and by
\* _try_restart only.
Spec == Init /\ [][Next]_vars

\* The threads of one supervisor under a fair scheduler: a thread that can
\* take a step is not held back for ever. Thread k runs _monitor,
\* _try_restart and start() one after the other; the initialisation task,
\* the health checks, refreshes and confirmations are threads of their own.
\* The request that stops the stream and the processes are not threads of
\* the application: no fairness is assumed for them.
Scheduling ==
    /\ WF_vars(InitInfo \/ Start(InitT))
    /\ \A k \in K : WF_vars(Monitor(k) \/ TryRestart(k) \/ Start(k))
    /\ \A k \in K : WF_vars(HealthCheck(k))
    /\ \A k \in K : WF_vars(TokenRefresh(k))
    /\ \A k \in K : WF_vars(ConfirmRecovery(k))

SpecScheduled == Init /\ [][Next]_vars /\ Scheduling

\* The supervisor with a client that calls start() on the running stream.
NextClient == Next \/ ClientCall

SpecClient == Init /\ [][NextClient]_vars

----------------------------------------------------------------------------
(* The pipe between the feeder and the transcoder *)

\* The feeder ends by itself: the upstream ended, or it wrote into a pipe
\* that has no reader left.
FeederExits(k) ==
    /\ fstate[k] = "alive"
    /\ fstate' = [fstate EXCEPT ![k] = "dead"]
    /\ UNCHANGED <<process, feeder, pstate>>
    /\ UNCHANGED <<supv, info, files, slots, pc, monv, bgv, opv>>

\* Lines 317-322: the transcoder of a piped launch reads the stdout of the
\* feeder of the same launch; _start_direct and _start_vod give it no stdin.
StdinOf(k) == IF fstate[k] # "none" THEN "feeder" ELSE "none"

\* The feeder holds the only write end of the pipe (Popen keeps none in the
\* parent): once it has ended, the transcoder reads end-of-input and ends.
TranscoderEof(k) ==
    /\ pstate[k] = "alive"
    /\ StdinOf(k) = "feeder"
    /\ fstate[k] = "dead"
    /\ pstate' = [pstate EXCEPT ![k] = "dead"]
    /\ UNCHANGED <<process, feeder, fstate>>
    /\ UNCHANGED <<supv, info, files, slots, pc, monv, bgv, opv>>

NextPiped ==
    \/ Next
    \/ \E k \in K : FeederExits(k)
    \/ \E k \in K : TranscoderEof(k)

\* The supervisor with feeders that may end at any time and transcoders
\* that read their input to the end: a transcoder at end-of-input is not
\* held back for ever. Nothing is assumed about the threads.
SpecPiped ==
    /\ Init
    /\ [][NextPiped]_vars
    /\ \A k \in K : WF_vars(TranscoderEof(k))

\* Line 212: the client enters start() once, on a stream in "error".
ClientRetry ==
    /\ pc[ClientT] = "idle"
    /\ status = "error"
    /\ StartTest(ClientT)

\* The supervisor with a client that starts the failed stream again.
NextRetry == Next \/ ClientRetry

SpecRetry == Init /\ [][NextRetry]_vars

----------------------------------------------------------------------------
(* A client of ManagedStream calling stop() again *)

\* Line 449: stop() is called on the supervisor after a stop() has returned.
StopAgain ==
    /\ opc = "stopped"
    /\ nstops < MaxStops
    /\ StopEnter

\* The supervisor with a client that calls stop() on the stopped stream.
NextStopTwice == Next \/ StopAgain

SpecStopTwice == Init /\ [][NextStopTwice]_vars

----------------------------------------------------------------------------
(* StreamManager: the registry, the streams table and the event loop *)

(***************************************************************************)
(* The registry is modelled with several users and streams.  A supervisor  *)
(* is seen from outside here: its status, whether its transcoder is alive, *)
(* whether its directory exists; start() and stop() are one step each.     *)
(* The handlers of the API (add, remove, list) and the continuations of     *)
(* the initialisation tasks run on the one event-loop thread, one at a      *)
(* time; handler lookup, metadata extraction and start() run in executor    *)
(* threads, in parallel with whatever the loop runs.  The supervisor        *)
(* variables of the first part stay as Init leaves them.                    *)
(***************************************************************************)

\* The variables of the single supervisor of the first part.
one == <<supv, info, procs, files, slots, pc, monv, bgv, opc, nstops, hv, dbv>>

MinOf(S) == CHOOSE x \in S : \A y \in S : x <= y

\* uuid.uuid4().hex[:12]: an id no ManagedStream was built for.
FreeSids == {s \in Sids : sup[s].user = 0}

\* Line 849: the name of the descriptor that add_stream_async returns.
DisplayName(arg) == IF arg # "" THEN arg ELSE "Stream"

\* Lines 904-910: the user's name, else the title of the metadata or the
\* name derived from the URL.
FinalName(arg) == IF arg # "" THEN arg ELSE "title"

\* database.save_stream: insert the row, or update the row of the key.
SaveStream(table, key, name, st) ==
    [table EXCEPT ![key] = [name |-> name, status |-> st]]

\* database.delete_stream.
DeleteStream(table, key) == [table EXCEPT ![key] = NoRec]

\* asdict(m.info) with the playlist locator, as list_streams returns it.
Descriptor(s, r) == [id |-> s, name |-> r.name, status |-> r.status]

\* ManagedStream.stop as one step.
Stopped(r) == [r EXCEPT !.status = "stopped", !.alive = FALSE]

\* ManagedStream.cleanup as one step: stop(), then rmtree of hls_dir.
CleanedUp(r) == [Stopped(r) EXCEPT !.dir = FALSE]

\* A faulty add_stream_async: the handler lookup and the metadata
\* extraction run before the call returns.
AddStreamEager(u, arg) ==
    /\ loop = LoopFree
    /\ FreeSids # {}
    /\ LET s == MinOf(FreeSids)
           r == [user |-> u, arg |-> arg, name |-> FinalName(arg),
                 status |-> "initializing", alive |-> FALSE, dir |-> TRUE]
       IN /\ streams' = streams \cup {<<u, s>>}
          /\ sup' = [sup EXCEPT ![s] = r]
          /\ db' = SaveStream(db, <<u, s>>, r.name, "initializing")
          /\ ipc' = [ipc EXCEPT ![s] = "metadata"]
          /\ result' = [op |-> "add", user |-> u, sid |-> s, ok |-> TRUE,
                        descs |-> {Descriptor(s, r)}]
    /\ UNCHANGED loop
    /\ UNCHANGED one

\* add_stream_async, lines 846-876: a ManagedStream is built (its __init__
\* makes the directory) and registered, the row is saved, the
\* initialisation task is created, the descriptor is returned.
AddStream(u, arg) ==
    /\ loop = LoopFree
    /\ FreeSids # {}
    /\ LET s == MinOf(FreeSids)
           r == [user |-> u, arg |-> arg, name |-> DisplayName(arg),
                 status |-> "initializing", alive |-> FALSE, dir |-> TRUE]
       IN /\ streams' = streams \cup {<<u, s>>}
          /\ sup' = [sup EXCEPT ![s] = r]
          /\ db' = SaveStream(db, <<u, s>>, r.name, "initializing")
          /\ ipc' = [ipc EXCEPT ![s] = "created"]
          /\ result' = [op |-> "add", user |-> u, sid |-> s, ok |-> TRUE,
                        descs |-> {Descriptor(s, r)}]
    /\ UNCHANGED loop
    /\ UNCHANGED one

\* _initialize_stream_background, lines 885-901: the task begins to run;
\* get_handler and get_metadata are run in the executor.
InitLookup(s) ==
    /\ loop = LoopFree
    /\ ipc[s] = "created"
    /\ ipc' = [ipc EXCEPT ![s] = "metadata"]
    /\ UNCHANGED <<streams, sup, db, loop, result>>
    /\ UNCHANGED one

\* Lines 904-938: back on the loop with the metadata: the name is settled,
\* the row is saved with the status of this moment, start() is handed to
\* the executor.
InitSave(s) ==
    /\ loop = LoopFree
    /\ ipc[s] = "metadata"
    /\ sup' = [sup EXCEPT ![s].name = FinalName(sup[s].arg)]
    /\ db' = SaveStream(db, <<sup[s].user, s>>, FinalName(sup[s].arg), sup[s].status)
    /\ ipc' = [ipc EXCEPT ![s] = "start"]
    /\ UNCHANGED <<streams, loop, result>>
    /\ UNCHANGED one

\* Line 938: managed.start() in an executor thread: the transcoder is
\* launched and the status is "running", or the launch raises (the
\* directory is gone, the tool is missing) and the status is "error".
InitStart(s) ==
    /\ ipc[s] = "start"
    /\ \E ok \in BOOLEAN :
         sup' = [sup EXCEPT ![s] =
                    IF sup[s].dir /\ ok
                    THEN [@ EXCEPT !.status = "running", !.alive = TRUE]
                    ELSE [@ EXCEPT !.status = "error"]]
    /\ ipc' = [ipc EXCEPT ![s] = "done"]
    /\ UNCHANGED <<streams, db, loop, result>>
    /\ UNCHANGED one

\* A faulty remove_stream: the entry is looked up by the stream id alone.
RemovePopAnyUser(u, s) ==
    /\ loop = LoopFree
    /\ IF \E v \in Users : <<v, s>> \in streams
       THEN /\ streams' = {key \in streams : key[2] # s}
            /\ loop' = [op |-> "remove", user |-> u, sid |-> s, todo |-> {}]
            /\ UNCHANGED result
       ELSE /\ result' = [op |-> "remove", user |-> u, sid |-> s, ok |-> FALSE,
                          descs |-> {}]
            /\ UNCHANGED <<streams, loop>>
    /\ UNCHANGED <<sup, db, ipc>>
    /\ UNCHANGED one

\* remove_stream, lines 987-990: pop of the key; False when there is none.
RemovePop(u, s) ==
    /\ loop = LoopFree
    /\ IF <<u, s>> \in streams
       THEN /\ streams' = streams \ {<<u, s>>}
            /\ loop' = [op |-> "remove", user |-> u, sid |-> s, todo |-> {}]
            /\ UNCHANGED result
       ELSE /\ result' = [op |-> "remove", user |-> u, sid |-> s, ok |-> FALSE,
                          descs |-> {}]
            /\ UNCHANGED <<streams, loop>>
    /\ UNCHANGED <<sup, db, ipc>>
    /\ UNCHANGED one

\* Line 991: managed.cleanup().
RemoveCleanup ==
    /\ loop.op = "remove"
    /\ sup' = [sup EXCEPT ![loop.sid] = CleanedUp(@)]
    /\ loop' = [loop EXCEPT !.op = "delete"]
    /\ UNCHANGED <<streams, db, ipc, result>>
    /\ UNCHANGED one

\* Lines 992-993: the row is deleted and True is returned.
RemoveDelete ==
    /\ loop.op = "delete"
    /\ db' = DeleteStream(db, <<loop.user, loop.sid>>)
    /\ result' = [op |-> "remove", user |-> loop.user, sid |-> loop.sid,
                  ok |-> TRUE, descs |-> {}]
    /\ loop' = LoopFree
    /\ UNCHANGED <<streams, sup, ipc>>
    /\ UNCHANGED one

\* A faulty list_streams: the user id of the key is not looked at.
ListStreamsAll(u) ==
    /\ loop = LoopFree
    /\ result' = [op |-> "list", user |-> u, sid |-> 0, ok |-> TRUE,
                  descs |-> {Descriptor(key[2], sup[key[2]]) : key \in streams}]
    /\ UNCHANGED <<streams, sup, db, ipc, loop>>
    /\ UNCHANGED one

\* list_streams, lines 998-1006.
ListStreams(u) ==
    /\ loop = LoopFree
    /\ result' = [op |-> "list", user |-> u, sid |-> 0, ok |-> TRUE,
                  descs |-> {Descriptor(key[2], sup[key[2]]) :
                                key \in {k2 \in streams : k2[1] = u}}]
    /\ UNCHANGED <<streams, sup, db, ipc, loop>>
    /\ UNCHANGED one

\* stop_all, lines 1009-1010, at shutdown: the snapshot of the supervisors.
StopAllBegin ==
    /\ loop = LoopFree
    /\ streams # {}
    /\ loop' = [op |-> "stop_all", user |-> 0, sid |-> 0,
                todo |-> {key[2] : key \in streams}]
    /\ UNCHANGED <<streams, sup, db, ipc, result>>
    /\ UNCHANGED one

\* The loop after the supervisor this step handles.
AfterStopAllOne ==
    IF loop.todo \ {MinOf(loop.todo)} = {}
    THEN LoopDown
    ELSE [loop EXCEPT !.todo = @ \ {MinOf(loop.todo)}]

\* A faulty stop_all: cleanup() is called instead of stop().
StopAllOneCleanup ==
    /\ loop.op = "stop_all"
    /\ sup' = [sup EXCEPT ![MinOf(loop.todo)] = CleanedUp(@)]
    /\ loop' = AfterStopAllOne
    /\ UNCHANGED <<streams, db, ipc, result>>
    /\ UNCHANGED one

\* Lines 1011-1012: m.stop() for the next supervisor of the snapshot; after
\* the last one the process exits.
StopAllOne ==
    /\ loop.op = "stop_all"
    /\ sup' = [sup EXCEPT ![MinOf(loop.todo)] = Stopped(@)]
    /\ loop' = AfterStopAllOne
    /\ UNCHANGED <<streams, db, ipc, result>>
    /\ UNCHANGED one

NextRegistry ==
    \/ \E u \in Users, arg \in NameArgs : AddStream(u, arg)
    \/ \E s \in Sids : InitLookup(s)
    \/ \E s \in Sids : InitSave(s)
    \/ \E s \in Sids : InitStart(s)
    \/ \E u \in Users, s \in Sids : RemovePop(u, s)
    \/ RemoveCleanup
    \/ RemoveDelete
    \/ \E u \in Users : ListStreams(u)
    \/ StopAllBegin
    \/ StopAllOne

\* The registry of the application; the first part's supervisor is idle.
InitRegistry == Init /\ url = "generic"

SpecRegistry == InitRegistry /\ [][NextRegistry]_vars

----------------------------------------------------------------------------
(* Properties *)

\* The places of a thread inside start() after the "already running" test.
StartPlaces ==
    {"s_bump", "s_gen", "s_vod", "s_download", "s_piped", "s_ffmpeg",
     "s_fail", "s_run", "s_tail"}

\* Thread t enters start() in this step.
Invokes(t) == pc[t] \in {"call", "idle"} /\ pc'[t] \notin {"call", "idle"}

ClaimedWait(n) ==
    IF n = 1 THEN 3
    ELSE IF n = 2 THEN 6
    ELSE IF n = 3 THEN 12
    ELSE IF n = 4 THEN 24
    ELSE 30

NewerUntouched(g) ==
    \A j \in K : sgen[j] > g => pstate'[j] = pstate[j] /\ fstate'[j] = fstate[j]

\* C2: a health check, refresh or confirmation whose generation is stale
\* ends no feeder or transcoder of a newer generation and changes neither
\* the restart counter nor the status.
C2_StaleTaskHasNoEffect ==
    [][\A k \in K :
         /\ (hpc[k] = "kill" /\ hpc'[k] = "none" /\ sgen[k] < generation)
               => NewerUntouched(sgen[k])
         /\ (tpc[k] = "kill" /\ tpc'[k] = "none" /\ sgen[k] < generation)
               => NewerUntouched(sgen[k])
         /\ (cpc[k] = "reset" /\ cpc'[k] = "none" /\ cgen[k] < generation)
               => restart_count' = restart_count /\ status' = status]_vars

\* C3: once stop() has returned the status stays "stopped" and no feeder
\* or transcoder comes to life (no client calls start() in Spec).
C3_StoppedStays ==
    [][(opc \in {"stopped", "removed"}) =>
         (/\ status' = "stopped"
          /\ \A k \in K : pstate'[k] = "alive" => pstate[k] = "alive"
          /\ \A k \in K : fstate'[k] = "alive" => fstate[k] = "alive")]_vars

\* No thread is inside start() or about to call it.
NoStartPending ==
    \A t \in Starters : pc[t] \notin StartPlaces \cup {"call", "i_info"}

\* C4: while a monitor is in the back-off wait no start() is pending; once
\* the stop flag is set in such a state, the waiting monitor completes no
\* further tick and its next step ends it, start() is never called (the flag
\* stays set, no slot is taken), and the directory, once removed, stays
\* removed.
C4_RemoveAbortsWait ==
    /\ []((\E k \in K : pc[k] = "r_wait") => NoStartPending)
    /\ [][(stopping /\ NoStartPending) =>
            (/\ stopping' /\ NoStartPending'
             /\ nstarts' = nstarts
             /\ ~dir => ~dir'
             /\ \A k \in K : pc[k] = "r_wait" =>
                   (\/ pc'[k] = "r_wait" /\ waited'[k] = waited[k]
                    \/ pc'[k] = "done"))]_vars

\* C4 is exercised: remove_stream has stopped the stream and deleted its
\* directory while the monitor is in the middle of its wait.
C4_Witness ==
    /\ opc = "removed"
    /\ ~dir
    /\ stopping
    /\ \E k \in K : pc[k] = "r_wait" /\ waited[k] >= 1 /\ waited[k] < Delay(attempt[k])

\* C7, as the code has it: the attempt counter goes down only by the
\* confirmation's reset to 0; the confirmation decides to reset only at the
\* end of its window, with its generation current, no stop requested and a
\* segment present; a restart trigger adds one to whatever the counter is.
C7_ResetAtExpiry ==
    [][/\ restart_count' < restart_count =>
             (restart_count' = 0 /\ \E k \in K : cpc[k] = "reset" /\ cpc'[k] = "none")
       /\ \A k \in K :
             /\ (cpc[k] = "reset" /\ cpc'[k] = "none") => restart_count' = 0
             /\ (cpc[k] = "sleep" /\ cpc'[k] = "reset") =>
                   (ts /\ cgen[k] = generation /\ ~stopping)
             /\ (pc[k] = "r_inc" /\ pc'[k] = "r_attempt") =>
                   (restart_count' = restart_count + 1)]_vars

\* C7 is exercised: the counter was reset after the first restart, so the
\* second trigger makes attempt 1 and waits the base delay.
C7_Witness ==
    /\ pc[2] = "r_wait"
    /\ attempt[2] = 1
    /\ restart_count = 1

\* C7 as stated: at a restart trigger that follows a restart, with a segment
\* present and the confirmation window still running, the counter is 0.
C7_ZeroAtNextTrigger ==
    [][\A k \in K \ {1} :
         (pc[k] = "r_lock" /\ pc'[k] = "r_inc" /\ ts /\ cpc[k - 1] = "sleep")
            => restart_count = 0]_vars

\* C8: the monitor of a platform source that has handled an exit waits and
\* calls start(); its thread does not end before that without a stop request.
C8_RestartGoesOn ==
    \A k \in K : pc[k] # "crashed"

\* The places of a monitor thread inside _try_restart.
RestartPlaces == {"r_lock", "r_inc", "r_attempt", "r_wait", "call", "crashed"}

\* C9: for a source that is not a platform source no restart is ever
\* attempted; its monitor, having found the generation current and no stop
\* requested, sets "stopped" on exit code 0 and otherwise "error" with the
\* exit code in the message.
C9_NonPlatformExit ==
    /\ [](~is_platform_url =>
            /\ restart_count = 0
            /\ status # "restarting"
            /\ nstarts <= 1
            /\ \A k \in K : pc[k] \notin RestartPlaces)
    /\ [][\A k \in K :
            /\ (pc[k] = "m_check" /\ pc'[k] = "m_branch") =>
                  (~is_platform_url /\ sgen[k] = generation /\ ~stopping)
            /\ (pc[k] = "m_check" /\ ~is_platform_url /\ sgen[k] = generation /\ ~stopping)
                  => pc'[k] \in {"m_check", "m_branch"}
            /\ (pc[k] = "m_branch" /\ pc'[k] # "m_branch") =>
                  (IF ret[k] = 0
                   THEN status' = "stopped" /\ error_message' = error_message
                   ELSE status' = "error"
                        /\ error_message' = <<"FFmpeg exited with code", ret[k]>>)]_vars

\* C9 is exercised: the transcoder of a generic source has exited with a
\* non-zero code and the monitor has recorded it.
C9_Witness ==
    /\ ~is_platform_url
    /\ pc[InitT] = "done"
    /\ pc[1] = "done"
    /\ status = "error"
    /\ error_message = <<"FFmpeg exited with code", 1>>

C11_FeederBeforeTranscoder ==
    [][opc' # opc =>
         (/\ (opc = "o_kill") =>
                (/\ opc' = "o_proc"
                 /\ pstate' = pstate
                 /\ feeder # 0 => fstate'[feeder] # "alive")
          /\ (pstate' # pstate) => (opc = "o_proc"))]_vars

\* C11 is exercised: stop() has killed the feeder of a piped stream and is
\* about to signal the transcoder, which is still alive.
C11_Witness ==
    /\ opc = "o_proc"
    /\ feeder # 0
    /\ fstate[feeder] = "dead"
    /\ Alive(process)

\* C12: a start() call that finds the transcoder alive returns at once:
\* generation, stop flag, status, error message, restart counter, descriptor,
\* process handles and processes, output files, slots and the monitor,
\* health-check and refresh threads are as before (a confirmation is spawned
\* afterwards by _try_restart, never by a client's call).
C12_StartNoOp ==
    [][\A t \in Starters :
         (Invokes(t) /\ Alive(process)) =>
            (/\ pc'[t] = "done"
             /\ UNCHANGED <<supv, info, procs, files>>
             /\ UNCHANGED <<nstarts, sgen, hpc, hproc, tpc>>
             /\ \A k \in K \ {t} : pc'[k] = pc[k]
             /\ t \notin K => (cpc' = cpc /\ UNCHANGED monv))]_vars

\* C12 is exercised: the client has called start() on the running stream
\* of the first launch and the call has returned.
C12_Witness ==
    /\ pc[ClientT] = "done"
    /\ Alive(process)
    /\ status = "running"
    /\ generation = 1
    /\ nstarts = 1

\* The start() call of slot k has returned through its except branch: it
\* has launched no transcoder.
LaunchFailed(k) ==
    /\ k <= nstarts
    /\ pstate[k] = "none"
    /\ \A t \in Starters : myslot[t] # k

\* C13: the except branch of start() sets "error" and the exception detail
\* and spawns no monitor, health check or refresh; after a failed launch,
\* also one issued by a restart, no thread of that launch exists, nobody is
\* in or about to call start(), no further launch is made, and the status
\* stays "error" (it is "stopped" only through stop()).
C13_LaunchFailureIsFinal ==
    /\ [](\A k \in K : LaunchFailed(k) =>
             (/\ nstarts = k
              /\ pc[k] = "none" /\ hpc[k] = "none" /\ tpc[k] = "none"
              /\ \A t \in Starters : pc[t] \notin StartPlaces \cup RestartPlaces
              /\ status \in {"error", "stopped"}
              /\ status = "stopped" => opc # "idle"))
    /\ [][\A t \in Starters :
            (pc[t] = "s_fail" /\ pc'[t] # "s_fail") =>
               (/\ status' = "error"
                /\ error_message' = <<"launch failed">>
                /\ pc'[myslot[t]] = "none"
                /\ hpc'[myslot[t]] = "none"
                /\ tpc'[myslot[t]] = "none")]_vars

\* C13 is exercised: the launch issued by the first restart has failed and
\* the stream is left in "error" with its monitor thread ended.
C13_Witness ==
    /\ LaunchFailed(2)
    /\ pc[1] = "done"
    /\ status = "error"
    /\ error_message = <<"launch failed">>
    /\ opc = "idle"

\* C17: a start() that finds the fetched asset in the directory goes from
\* the cache test straight to the FFmpeg launch, with no fetch and without
\* the status "downloading"; a thread is in the fetch only when there is no
\* cached asset; the purge at the beginning of start() leaves the asset.
C17_CachedAssetReused ==
    /\ [](\A t \in Starters : pc[t] = "s_download" => ~cached)
    /\ [][\A t \in Starters :
            /\ (pc[t] = "s_gen" /\ pc'[t] # "s_gen") => cached' = cached
            /\ (pc[t] = "s_vod" /\ pc'[t] # "s_vod" /\ cached) =>
                  (pc'[t] = "s_ffmpeg" /\ status' = status /\ cached' = cached)]_vars

\* C17 is exercised: the restart of a VOD stream has launched its transcoder
\* from the asset that the first start() fetched, without "downloading".
C17_Witness ==
    /\ is_vod
    /\ cached
    /\ nstarts = 2
    /\ pc[1] = "s_run"
    /\ process = 2
    /\ Alive(process)
    /\ status = "restarting"

\* C20: stop() never reassigns the process handles; a step of stop() that
\* finds the process it looks at not alive (a stopped supervisor, or one
\* never started, whose handle is None) ends no process; and stop() always
\* ends with the status "stopped", whatever the status was.
C20_StopIdempotent ==
    [][opc' # opc =>
         (/\ process' = process
          /\ feeder' = feeder
          /\ (opc = "o_kill" /\ ~(feeder # 0 /\ fstate[feeder] = "alive")) =>
                (fstate' = fstate /\ pstate' = pstate)
          /\ (opc = "o_proc" /\ ~Alive(process)) =>
                (fstate' = fstate /\ pstate' = pstate)
          /\ (opc = "o_proc") => (opc' = "stopped" /\ status' = "stopped"))]_vars

\* C20 is exercised: a second stop() on the stopped supervisor has returned;
\* the handle still refers to the transcoder that the first stop() ended.
C20_Witness ==
    /\ nstops = 2
    /\ opc = "stopped"
    /\ status = "stopped"
    /\ nstarts = 1
    /\ process = 1
    /\ pstate[1] = "dead"
    /\ pc[1] = "done"

\* The stream ids registered under user u.
RegisteredTo(u) == {s \in Sids : <<u, s>> \in streams}

\* C14: what list_streams(u) returns is exactly the descriptors of the
\* streams registered under u, and every descriptor it has returned is of
\* a stream that u added, also when another user's stream has the same name.
C14_ListIsolation ==
    /\ [](result.op = "list" =>
             \A d \in result.descs : sup[d.id].user = result.user)
    /\ [][(result' # result /\ result'.op = "list") =>
             (/\ {d.id : d \in result'.descs} = RegisteredTo(result'.user)
              /\ \A d \in result'.descs : d = Descriptor(d.id, sup[d.id])
              /\ UNCHANGED <<streams, sup, db>>)]_vars

\* C14 is exercised: users 1 and 2 have a stream each under the same name
\* and the listing for user 2 has returned the one of user 2 only.
C14_Witness ==
    /\ streams = {<<1, 1>>, <<2, 2>>}
    /\ sup[1].name = "cam"
    /\ sup[2].name = "cam"
    /\ result.op = "list"
    /\ result.user = 2
    /\ {d.id : d \in result.descs} = {2}

\* C15: a remove_stream that returns False was given a key that is not
\* registered and has left registry, supervisors (processes, directories)
\* and rows as they were; remove_stream goes on past the pop only for a
\* registered key, which it unregisters; then it stops the supervisor and
\* deletes its directory, then deletes the row of the key and returns True.
C15_Remove ==
    /\ [](result.op = "remove" /\ result.ok =>
             <<result.user, result.sid>> \notin streams)
    /\ [][/\ (result' # result /\ result'.op = "remove" /\ ~result'.ok) =>
               (/\ <<result'.user, result'.sid>> \notin streams
                /\ UNCHANGED <<streams, sup, db, ipc, loop>>)
          /\ (loop = LoopFree /\ loop'.op = "remove") =>
               (/\ <<loop'.user, loop'.sid>> \in streams
                /\ streams' = streams \ {<<loop'.user, loop'.sid>>}
                /\ UNCHANGED <<sup, db>>)
          /\ (loop.op = "remove" /\ loop' # loop) =>
               (/\ loop'.op = "delete"
                /\ sup'[loop.sid].status = "stopped"
                /\ ~sup'[loop.sid].alive
                /\ ~sup'[loop.sid].dir
                /\ \A s \in Sids \ {loop.sid} : sup'[s] = sup[s]
                /\ UNCHANGED <<streams, db>>)
          /\ (loop.op = "delete" /\ loop' # loop) =>
               (/\ loop' = LoopFree
                /\ db' = [db EXCEPT ![<<loop.user, loop.sid>>] = NoRec]
                /\ result'.op = "remove" /\ result'.ok
                /\ result'.user = loop.user /\ result'.sid = loop.sid
                /\ UNCHANGED <<streams, sup>>)]_vars

\* C15 is exercised: user 2 has asked to remove the running stream 1 of
\* user 1 and got False; the stream, its directory and its row are there.
C15_Witness ==
    /\ result.op = "remove"
    /\ result.user = 2
    /\ result.sid = 1
    /\ ~result.ok
    /\ <<1, 1>> \in streams
    /\ sup[1].alive
    /\ sup[1].dir
    /\ db[<<1, 1>>] # NoRec

\* remove_stream(u, s) has returned True.
Removed(u, s) ==
    /\ sup[s].user = u
    /\ <<u, s>> \notin streams
    /\ ~(loop.op \in {"remove", "delete"} /\ loop.sid = s)

\* C16: once remove_stream(u, s) has returned True the streams table has no
\* row for (u, s), whatever the initialisation task of the stream does
\* afterwards.
C16_RemovedStaysRemoved ==
    \A key \in Keys : Removed(key[1], key[2]) => db[key] = NoRec

C19_AddReturnsInitializing ==
    /\ [](\A s \in Sids : ipc[s] = "created" =>
             (/\ ~sup[s].alive
              /\ sup[s].status \in {"initializing", "stopped"}
              /\ sup[s].name = DisplayName(sup[s].arg)))
    /\ [][(result' # result /\ result'.op = "add") =>
             (/\ sup[result'.sid] = NoSup
              /\ \A u \in Users : <<u, result'.sid>> \notin streams
              /\ streams' = streams \cup {<<result'.user, result'.sid>>}
              /\ result'.descs = {Descriptor(result'.sid, sup'[result'.sid])}
              /\ \A d \in result'.descs : d.status = "initializing"
              /\ sup'[result'.sid].user = result'.user
              /\ ~sup'[result'.sid].alive
              /\ ipc'[result'.sid] = "created")]_vars

\* C19 is exercised: the second stream has just been added, by the user who
\* owns the running first one; its task has not begun.
C19_Witness ==
    /\ result.op = "add"
    /\ result.user = 1
    /\ result.sid = 2
    /\ streams = {<<1, 1>>, <<1, 2>>}
    /\ sup[1].status = "running"
    /\ sup[2].status = "initializing"
    /\ ipc[2] = "created"

----------------------------------------------------------------------------
(* StreamHandlerRegistry, src/app/stream_handlers.py *)

\* can_handle of each handler class, on the URL classes of Urls.
CanHandle(h, u) ==
    CASE h = "TwitchHandler" -> u = "twitch"
      [] h = "YouTubeHandler" -> u = "ytvod"
      [] h = "AmssKamereHandler" -> u = "amss"
      [] h = "GenericHandler" -> TRUE
      [] h = "CustomTwitch" -> u = "twitch"
      [] h = "CustomAll" -> TRUE
      [] OTHER -> FALSE

\* list.insert(i, x): a negative index counts from the end, and the index is
\* clamped into 0..len(list).
InsertAt(list, i, x) ==
    LET n == Len(list)
        j == IF i < 0 THEN (IF i + n < 0 THEN 0 ELSE i + n)
                      ELSE (IF i > n THEN n ELSE i)
    IN  SubSeq(list, 1, j) \o <<x>> \o SubSeq(list, j + 1, n)

\* Lines 321-325: the first handler in list order that accepts the URL, and
\* self._handlers[-1] when none does.
GetHandler(list, u) ==
    LET hits == {i \in 1..Len(list) : CanHandle(list[i], u)}
    IN  IF hits = {} THEN list[Len(list)]
        ELSE list[CHOOSE i \in hits : \A j \in hits : i <= j]

\* Lines 327-329: add_handler(handler, priority).
AddHandler(h, priority) ==
    /\ nadds < MaxAdds
    /\ handlers' = InsertAt(handlers, priority, h)
    /\ nadds' = nadds + 1
    /\ UNCHANGED chosen
    /\ UNCHANGED <<appv, dbv>>

\* Lines 319-325: get_handler(url).
GetHandlerCall(u) ==
    /\ chosen' = [url |-> u, handler |-> GetHandler(handlers, u)]
    /\ UNCHANGED <<handlers, nadds>>
    /\ UNCHANGED <<appv, dbv>>

NextHandlers ==
    \/ \E h \in CustomHandlers :
         \E priority \in (0 - MaxPriority)..MaxPriority : AddHandler(h, priority)
    \/ \E u \in Urls : GetHandlerCall(u)

InitHandlers == Init /\ url = "generic"

\* One handler registry, its add_handler and get_handler calls.
SpecHandlers == InitHandlers /\ [][NextHandlers]_vars

\* C22, first half: get_handler returns a handler of the list that accepts
\* the URL (or the last one when none accepts), and no handler before it in
\* the list accepts the URL.
C22_FirstMatch ==
    [][chosen' # chosen =>
        \E i \in 1..Len(handlers) :
            /\ handlers[i] = chosen'.handler
            /\ CanHandle(handlers[i], chosen'.url)
            /\ \A j \in 1..(i - 1) : ~CanHandle(handlers[j], chosen'.url)]_vars

\* C22, second half: the handler list ends with the catch-all handler after
\* every sequence of add_handler calls.
C22_EndsWithCatchAll ==
    handlers[Len(handlers)] = "GenericHandler"

----------------------------------------------------------------------------
(* The streams table, src/app/database.py *)

\* Arguments of save_stream besides the key, as stream_manager passes them:
\* a new stream, a running VOD, a failed platform stream.
SaveArgs ==
    {[name |-> "cam", source_url |-> "rtsp://cam", status |-> "initializing",
      error_message |-> "", is_platform_url |-> FALSE, is_vod |-> FALSE],
     [name |-> "talk", source_url |-> "https://youtu.be/x", status |-> "running",
      error_message |-> "", is_platform_url |-> TRUE, is_vod |-> TRUE],
     [name |-> "live", source_url |-> "https://twitch.tv/x", status |-> "error",
      error_message |-> "exited with code 1", is_platform_url |-> TRUE,
      is_vod |-> FALSE]}

\* The rows of a table under the key (user_id, stream_id).
RowsOf(table, u, s) == {r \in table : r.user_id = u /\ r.stream_id = s}

\* INSERT OR REPLACE instead of the upsert: the row under the key gives way
\* to the new one, source_url and created_at included.
UpsertReplace(table, u, s, a, t) ==
    (table \ RowsOf(table, u, s)) \cup
        {[user_id |-> u, stream_id |-> s, name |-> a.name,
          source_url |-> a.source_url, status |-> a.status,
          error_message |-> a.error_message,
          is_platform_url |-> a.is_platform_url, is_vod |-> a.is_vod,
          created_at |-> t]}

\* Lines 147-170: INSERT ... ON CONFLICT(user_id, stream_id) DO UPDATE SET
\* name, status, error_message, is_platform_url, is_vod.
Upsert(table, u, s, a, t) ==
    IF RowsOf(table, u, s) = {}
    THEN table \cup
        {[user_id |-> u, stream_id |-> s, name |-> a.name,
          source_url |-> a.source_url, status |-> a.status,
          error_message |-> a.error_message,
          is_platform_url |-> a.is_platform_url, is_vod |-> a.is_vod,
          created_at |-> t]}
    ELSE (table \ RowsOf(table, u, s)) \cup
        {[r EXCEPT !.name = a.name, !.status = a.status,
                   !.error_message = a.error_message,
                   !.is_platform_url = a.is_platform_url,
                   !.is_vod = a.is_vod] : r \in RowsOf(table, u, s)}

\* Lines 133-170: save_stream; created_at = time.time() (line 144).
SaveStreamCall(u, s, a) ==
    /\ nsaves < MaxSaves
    /\ rows' = Upsert(rows, u, s, a, now)
    /\ nsaves' = nsaves + 1
    /\ dbres' = [NoDbRes EXCEPT !.op = "save", !.user_id = u, !.stream_id = s,
                                !.args = a]
    /\ UNCHANGED <<users, useq, now>>
    /\ UNCHANGED <<appv, hv>>

\* SELECT ... FROM streams (no WHERE clause).
GetUserStreamsAll(u) ==
    /\ dbres' = [NoDbRes EXCEPT !.op = "list", !.user_id = u, !.recs = rows]
    /\ UNCHANGED <<rows, users, useq, now, nsaves>>
    /\ UNCHANGED <<appv, hv>>

\* Lines 173-201: get_user_streams: SELECT ... WHERE user_id = ?.
GetUserStreams(u) ==
    /\ dbres' = [NoDbRes EXCEPT !.op = "list", !.user_id = u,
                                !.recs = {r \in rows : r.user_id = u}]
    /\ UNCHANGED <<rows, users, useq, now, nsaves>>
    /\ UNCHANGED <<appv, hv>>

\* Lines 204-210: delete_stream: DELETE ... WHERE user_id = ? AND
\* stream_id = ?; returns rowcount > 0.
DeleteStreamCall(u, s) ==
    /\ rows' = rows \ RowsOf(rows, u, s)
    /\ dbres' = [NoDbRes EXCEPT !.op = "delete", !.user_id = u, !.stream_id = s,
                                !.ok = (RowsOf(rows, u, s) # {})]
    /\ UNCHANGED <<users, useq, now, nsaves>>
    /\ UNCHANGED <<appv, hv>>

\* Time passes between two database calls.
ClockTick ==
    /\ now < MaxClock
    /\ now' = now + 1
    /\ UNCHANGED <<rows, users, useq, nsaves, dbres>>
    /\ UNCHANGED <<appv, hv>>

NextDatabase ==
    \/ \E u \in Users, sid \in Sids, a \in SaveArgs : SaveStreamCall(u, sid, a)
    \/ \E u \in Users : GetUserStreams(u)
    \/ \E u \in Users, sid \in Sids : DeleteStreamCall(u, sid)
    \/ ClockTick

\* The streams table and the calls made on it, one at a time.
SpecDatabase == InitRegistry /\ [][NextDatabase]_vars

----------------------------------------------------------------------------
(* The users table and the session cookie *)

\* A faulty get_or_create_user that never looks the session id up.
FindUserNever(table, sid) == {}

\* Lines 126-129 (get_user_by_session, 112-121): the user rows found for a
\* session id; none is looked for when the request carries no session id.
FindUser(table, sid) ==
    IF sid # 0 THEN {x \in table : x.session_id = sid} ELSE {}

\* Lines 98-99: the session id create_user stores: the one given, or a new
\* uuid4().hex, which no row holds.
NewSession(table, sid) ==
    IF sid # 0 THEN sid
    ELSE CHOOSE n \in 1..MaxSessions :
            /\ \A x \in table : x.session_id # n
            /\ \A m \in 1..(n - 1) : \E x \in table : x.session_id = m

\* main.py 64-76 with database.py 96-130: get_user_from_session(session_id):
\* get_or_create_user returns the stored user of the session id or inserts a
\* row (AUTOINCREMENT id); the cookie is set when the request had no session
\* id or another one than the user's.
GetUserFromSession(sid) ==
    LET found == FindUser(users, sid)
        made == [id |-> useq + 1, session_id |-> NewSession(users, sid),
                 created_at |-> now]
        user == IF found # {} THEN CHOOSE x \in found : TRUE ELSE made
    IN  /\ (found = {}) =>
              (/\ useq < MaxAccounts
               /\ \E n \in 1..MaxSessions : \A x \in users : x.session_id # n)
        /\ users' = IF found # {} THEN users ELSE users \cup {made}
        /\ useq' = IF found # {} THEN useq ELSE useq + 1
        /\ dbres' = [NoDbRes EXCEPT
                        !.op = "user", !.user_id = user.id, !.session_id = sid,
                        !.cookie = IF sid = 0 \/ sid # user.session_id
                                   THEN user.session_id ELSE 0]
        /\ UNCHANGED <<rows, now, nsaves>>
        /\ UNCHANGED <<appv, hv>>

NextSessions ==
    \/ \E sid \in 0..MaxSessions : GetUserFromSession(sid)
    \/ ClockTick

\* The users table and the requests that resolve their session cookie.
SpecSessions == InitRegistry /\ [][NextSessions]_vars

----------------------------------------------------------------------------
(* cleanup_old_sessions on both tables *)

\* Lines 213-219: DELETE FROM users WHERE created_at < cutoff, with
\* cutoff = time.time() - days * 86400 (the clock counts days).  The rows of
\* streams go with their user (ON DELETE CASCADE, line 88) only on a
\* connection that enforces foreign keys: get_db (43-55) issues no
\* PRAGMA foreign_keys, so that is left to the default of the SQLite build.
CleanupOldSessions(days) ==
    LET old == {x \in users : x.created_at < now - days}
    IN  /\ users' = users \ old
        /\ \E enforced \in BOOLEAN :
              rows' = IF enforced
                      THEN {r \in rows : \A x \in old : r.user_id # x.id}
                      ELSE rows
        /\ dbres' = [NoDbRes EXCEPT !.op = "cleanup"]
        /\ UNCHANGED <<useq, now, nsaves>>
        /\ UNCHANGED <<appv, hv>>

\* Requests resolve their session, add_stream_async saves the new stream of
\* a user it has resolved (864-873 of stream_manager.py), time passes, old
\* sessions are cleaned up.
NextCleanup ==
    \/ \E sid \in 0..MaxSessions : GetUserFromSession(sid)
    \/ \E u \in {x.id : x \in users}, sid \in Sids :
          \E a \in {x \in SaveArgs : x.status = "initializing"} :
             SaveStreamCall(u, sid, a)
    \/ ClockTick
    \/ \E days \in 0..MaxClock : CleanupOldSessions(days)

SpecCleanup == InitRegistry /\ [][NextCleanup]_vars

\* C23: persisted streams are separated per user. get_user_streams(u) returns
\* exactly the rows of the table that carry user id u and changes nothing;
\* delete_stream(u, s) returns true exactly when a row (u, s) was in the
\* table, and removes that row and nothing else; save_stream(u, ...) leaves
\* the rows of every other user as they are.
C23_PerUserSeparation ==
    [][(dbres' # dbres \/ rows' # rows) =>
        LET u == dbres'.user_id
            s == dbres'.stream_id
        IN  /\ (dbres'.op = "list") =>
                 (/\ rows' = rows
                  /\ \A r \in rows : (r \in dbres'.recs) <=> (r.user_id = u)
                  /\ dbres'.recs \subseteq rows)
            /\ (dbres'.op = "delete") =>
                 (/\ dbres'.ok <=>
                        (\E r \in rows : r.user_id = u /\ r.stream_id = s)
                  /\ \A r \in rows :
                        (r \in rows') <=> ~(r.user_id = u /\ r.stream_id = s)
                  /\ rows' \subseteq rows)
            /\ (dbres'.op = "save") =>
                 (\A r \in rows \cup rows' :
                        (r.user_id # u) => (r \in rows /\ r \in rows'))]_vars

\* C23 is exercised: delete_stream(u, s) has returned true while another
\* user's row with the same stream id is in the table.
C23_Witness ==
    /\ dbres.op = "delete"
    /\ dbres.ok
    /\ \E r \in rows : r.stream_id = dbres.stream_id /\ r.user_id # dbres.user_id
    /\ ~\E r \in rows : r.stream_id = dbres.stream_id /\ r.user_id = dbres.user_id

\* C24: save_stream is an upsert on (user_id, stream_id). The table never
\* holds two rows under one key; a save leaves one row under its key, with
\* the name, status, error message, is_platform_url and is_vod of the call;
\* when the key was there, source_url and created_at stay as first stored,
\* and when it was not, they are those of the call.
C24_Upsert ==
    /\ [](\A r1, r2 \in rows :
            (r1.user_id = r2.user_id /\ r1.stream_id = r2.stream_id) => r1 = r2)
    /\ [][(dbres'.op = "save" /\ (dbres' # dbres \/ rows' # rows)) =>
            LET u == dbres'.user_id
                s == dbres'.stream_id
                a == dbres'.args
                old == RowsOf(rows, u, s)
                new == RowsOf(rows', u, s)
            IN  /\ Cardinality(new) = 1
                /\ \A n \in new :
                     /\ n.name = a.name
                     /\ n.status = a.status
                     /\ n.error_message = a.error_message
                     /\ n.is_platform_url = a.is_platform_url
                     /\ n.is_vod = a.is_vod
                     /\ \A o \in old : /\ n.source_url = o.source_url
                                       /\ n.created_at = o.created_at
                     /\ (old = {}) => (/\ n.source_url = a.source_url
                                       /\ n.created_at = now)]_vars

\* C24 is exercised: a row saved earlier with one source URL has been saved
\* again, later, with another name and another source URL.
C24_Witness ==
    /\ dbres.op = "save"
    /\ \E r \in RowsOf(rows, dbres.user_id, dbres.stream_id) :
         /\ r.name = dbres.args.name
         /\ r.source_url # dbres.args.source_url
         /\ r.created_at < now

\* C25: session identity. User ids and session ids are unique in the users
\* table and no row ever goes or changes; a request with a stored session id
\* gets the user of that row and the table stays as it is; a request without
\* a session id gets a new row with an id and a session id that no row had,
\* and that session id is set as cookie.
C25_SessionIdentity ==
    /\ [](\A x, y \in users :
            (x.id = y.id \/ x.session_id = y.session_id) => x = y)
    /\ [][/\ users \subseteq users'
          /\ (dbres'.op = "user" /\ (dbres' # dbres \/ users' # users)) =>
               LET sid == dbres'.session_id
                   known == {x \in users : x.session_id = sid}
               IN  /\ (sid # 0 /\ known # {}) =>
                        (/\ users' = users
                         /\ \A x \in known : dbres'.user_id = x.id)
                   /\ (sid = 0) =>
                        \E x \in users' :
                           /\ users' = users \cup {x}
                           /\ x.id = dbres'.user_id
                           /\ x.session_id # 0
                           /\ \A y \in users : /\ y.id # x.id
                                               /\ y.session_id # x.session_id
                           /\ dbres'.cookie = x.session_id]_vars

\* C25 is exercised: with two users stored, a request carrying the session
\* id of the older one has been resolved to that user, and no cookie was set.
C25_Witness ==
    /\ dbres.op = "user"
    /\ dbres.session_id # 0
    /\ dbres.cookie = 0
    /\ Cardinality(users) = 2
    /\ useq = 2
    /\ \E x \in users : /\ x.session_id = dbres.session_id
                        /\ x.id = dbres.user_id
                        /\ x.id = 1

C27_SpawnedTasks ==
    /\ []((~is_platform_url /\ ~is_vod) =>
            \A k \in K : hpc[k] = "none" /\ tpc[k] = "none")
    /\ [][\A t \in Starters :
            (pc[t] = "s_tail" /\ pc'[t] # "s_tail") =>
               LET k == myslot[t]
               IN  /\ pc'[k] = "m_begin"
                   /\ hpc'[k] = IF (is_platform_url \/ is_vod) /\ sgen[k] = generation
                                THEN "sleep" ELSE "none"
                   /\ tpc'[k] = IF (is_platform_url /\ ~is_vod) /\ sgen[k] = generation
                                THEN "sleep" ELSE "none"
                   /\ \A j \in K \ {k} : /\ hpc'[j] = hpc[j]
                                         /\ tpc'[j] = tpc[j]
                                         /\ (j # t) => (pc'[j] = pc[j])]_vars

\* C27 is exercised: start() has returned for a VOD; the monitor and the
\* health check of its slot exist and no token refresh does.
C27_Witness ==
    /\ url = "ytvod"
    /\ is_vod
    /\ status = "running"
    /\ pc[InitT] = "done"
    /\ pc[1] = "m_begin"
    /\ hpc[1] = "sleep"
    /\ tpc[1] = "none"

\* C28: the health check ends processes only while its generation is
\* current, no stop is requested and the transcoder it looked at is alive.
C28_KillsOnlyWhileCurrent ==
    [][\A k \in K :
         (hpc[k] = "kill" /\ hpc'[k] = "none") =>
            (/\ Live(sgen[k])
             /\ Alive(hproc[k])
             /\ \A j \in K : (fstate'[j] # fstate[j]) => (sgen[j] = sgen[k]))]_vars

\* C29: once the health check of a platform stream has found the pipeline
\* stalled, then, unless a stop is requested, the pipeline is killed, the
\* monitor sees the exit, and start() is called again for a new generation.
C29_StallRecovery ==
    \A k \in 1..(MaxStarts - 1) :
        (hpc[k] = "kill" /\ Live(sgen[k]) /\ Alive(hproc[k]))
            ~> (nstarts > k \/ opc # "idle")

\* C30: a refresh gets to its kill statements only out of its sleep and only
\* with its generation current and no stop requested (one that finds the
\* generation changed or the stop flag set at a tick returns); its kill
\* statements, with no further test, leave neither the feeder nor the
\* transcoder the supervisor refers to alive; and from there the monitor of
\* that generation enters _try_restart, unless the generation goes stale or
\* a stop is requested first.
C30_ProactiveRefresh ==
    /\ [][\A k \in K :
            /\ (tpc'[k] = "kill" /\ tpc[k] # "kill") =>
                  (tpc[k] = "sleep" /\ Live(sgen[k]))
            /\ (tpc[k] # "kill" /\ ~Live(sgen[k])) => (tpc'[k] # "kill")
            /\ (tpc[k] = "kill" /\ tpc'[k] # "kill") =>
                  (/\ tpc'[k] = "none"
                   /\ feeder # 0 => fstate'[feeder] # "alive"
                   /\ process # 0 => pstate'[process] # "alive")]_vars
    /\ \A k \in K :
          (tpc[k] = "kill" /\ Live(sgen[k]))
              ~> (pc[k] \in RestartPlaces \/ ~Live(sgen[k]))

\* C30 is exercised: the refresh of a running piped stream has killed feeder
\* and transcoder (the health check still sleeps, no stop is requested) and
\* the monitor has not yet returned from wait().
C30_Witness ==
    /\ url = "twitch"
    /\ opc = "idle"
    /\ Live(sgen[1])
    /\ pc[1] = "m_wait"
    /\ hpc[1] = "sleep"
    /\ tpc[1] = "none"
    /\ fstate[1] = "dead"
    /\ pstate[1] = "dead"

\* C31: an operation on one user's streams is never blocked by a
\* long-running operation on another user's stream: while remove_stream is
\* busy with cleanup() and the database write for one user, a list_streams
\* request of another user can run.
C31_NeverBlocked ==
    \A u \in Users :
        (loop.op \in {"remove", "delete"} /\ loop.user # u) => ENABLED ListStreams(u)

\* C32: start() unlinks the segments of hls_dir before it launches, so no
\* launch begins with a segment in the directory, and a health check or a
\* recovery confirmation whose generation is current never finds a segment
\* that a transcoder of an earlier generation wrote.
C32_PurgedBeforeLaunch ==
    /\ \A t \in Starters :
         pc[t] \in {"s_vod", "s_download", "s_piped", "s_ffmpeg"} => ~ts
    /\ \A k \in K :
         /\ (hpc[k] = "sleep" /\ Live(sgen[k]) /\ ts) => sgen[tsof] >= sgen[k]
         /\ (cpc[k] = "sleep" /\ Live(cgen[k]) /\ ts) => sgen[tsof] >= cgen[k]

\* A restart has purged the segment of the first launch, the second
\* transcoder has written its own, and the health check and the confirmation
\* of the second generation are waiting to look at the directory.
C32_Witness ==
    /\ ts
    /\ tsof = 2
    /\ hpc[2] = "sleep"
    /\ Live(sgen[2])
    /\ \E k \in K : cpc[k] = "sleep" /\ Live(cgen[k])

C34_LaunchModes ==
    /\ [](url = "amss" => (\A k \in K : fstate[k] = "none") /\ feeder = 0)
    /\ [][/\ \A t \in Starters :
              /\ (pc[t] = "s_gen" /\ pc'[t] # "s_gen") =>
                   /\ (pc'[t] = "s_vod") <=> is_vod
                   /\ (pc'[t] = "s_piped") <=>
                        (~is_vod /\ is_platform_url /\ url \in {"twitch", "ytvod"})
                   /\ (pc'[t] = "s_ffmpeg") <=>
                        (~is_vod /\ (~is_platform_url \/ url \in {"amss", "generic"}))
              /\ (pc[t] = "s_piped" /\ pc'[t] = "s_run") =>
                   /\ feeder' = myslot[t] /\ fstate'[myslot[t]] = "alive"
                   /\ process' = myslot[t] /\ pstate'[myslot[t]] = "alive"
              /\ (pc[t] = "s_ffmpeg" /\ pc'[t] = "s_run") =>
                   /\ process' = myslot[t] /\ pstate'[myslot[t]] = "alive"
                   /\ feeder' = feeder /\ fstate' = fstate
                   /\ fstate[myslot[t]] = "none"
              /\ (url = "amss" /\ pc[t] = "s_tail" /\ pc'[t] # "s_tail"
                    /\ sgen[myslot[t]] = generation) =>
                   (hpc'[myslot[t]] = "sleep" /\ tpc'[myslot[t]] = "sleep")
          /\ \A k \in K :
              (url = "amss" /\ pc[k] = "m_check" /\ pc'[k] # "m_check" /\ Live(sgen[k])) =>
                   (pc'[k] = "r_lock")]_vars

\* The amss stream runs after a restart: a transcoder and no feeder, with
\* the health check and the token refresh of the second launch waiting.
C34_Witness ==
    /\ url = "amss"
    /\ nstarts = 2
    /\ process = 2
    /\ pstate[2] = "alive"
    /\ feeder = 0
    /\ status = "running"
    /\ hpc[2] = "sleep"
    /\ tpc[2] = "sleep"

\* C35: after cleanup_old_sessions no stream record refers to a user that
\* is no longer in the users table.
C35_NoOrphanRows ==
    dbres.op = "cleanup" => \A r \in rows : \E x \in users : x.id = r.user_id

\* C36: in every reachable state in which the status is "running" the error
\* message is empty.
C36_RunningHasNoMessage ==
    status = "running" => error_message = <<>>

\* C36, outside start(): when no start() call stands between its lines 262
\* and 263, a running stream has an empty error message.
C36_RunningHasNoMessageAtRest ==
    (status = "running" /\ \A t \in Starters : pc[t] # "s_tail") => error_message = <<>>

\* C37: at every moment every live transcoder is the one self.process
\* refers to and every live feeder the one self._feeder refers to, so at
\* most one of each is alive.
C37_OnlyReferencedProcessesLive ==
    \A k \in K :
        /\ pstate[k] = "alive" => process = k
        /\ fstate[k] = "alive" => feeder = k

\* C38: once remove_stream has run cleanup() on the supervisor (stop() and
\* the removal of hls_dir have returned), no transcoder and no feeder of the
\* stream is alive, whatever the initialisation task or a pending restart
\* does before or afterwards.
C38_RemovedHasNoProcess ==
    opc = "removed" => \A k \in K : pstate[k] # "alive" /\ fstate[k] # "alive"

\* C39: when start() ends through its except branch, neither the feeder nor
\* the transcoder of that call is alive.
C39_FailedLaunchLeavesNothing ==
    [][\A t \in Starters :
         (pc[t] = "s_fail" /\ pc'[t] # "s_fail") =>
            (/\ status' = "error"
             /\ fstate'[myslot[t]] # "alive"
             /\ pstate'[myslot[t]] # "alive")]_vars

====
